---- MODULE Spec2Model ----
(***************************************************************************)
(* Foodgram backend: the relational store (recipes, ingredient amounts,    *)
(* favorites, shopping carts, subscriptions) and the request handlers of   *)
(* backend/api (the views built on recipes.models) and of the older        *)
(* backend/recipes and backend/users view modules kept beside them.        *)
(*                                                                         *)
(* One HTTP request is one action: the handler runs to its response.  The  *)
(* request just served and its response are kept in the state until the    *)
(* client takes the response (Reply).  The store runs in Django's default  *)
(* autocommit mode (no settings module sets ATOMIC_REQUESTS).  Requests    *)
(* served in parallel are followed statement by statement (workers).       *)
(***************************************************************************)
EXTENDS Integers, Sequences, FiniteSets, Bags, TLC

VARIABLES
    Recipe,             \* recipes_recipe: id -> [author, name, cooking_time,
                        \* tags]
    IngredientAmount,   \* recipes_ingredientamount rows, in primary-key order
    Favorite,           \* recipes_favorite rows: bag of [user, recipe]
    ShoppingCart,       \* recipes_shoppingcart rows: bag of [user, recipe]
    Subscription,       \* recipes_subscription rows: bag of [user, author]
    nextRecipeId,       \* next AutoField value of Recipe
    nextAmountId,       \* next AutoField value of IngredientAmount
    request,            \* the request being answered, [op |-> "none"] when idle
    response,           \* its response
    workers,            \* requests served concurrently, one per worker, each
                        \* at a statement of its handler
    catalog             \* the tables and files of the import commands:
                        \* [Ingredient, Tag, ingredients_json, tags_json]

vars == <<Recipe, IngredientAmount, Favorite, ShoppingCart, Subscription,
          nextRecipeId, nextAmountId, request, response, workers, catalog>>

(***************************************************************************)
(* Bounds of the model.                                                    *)
(***************************************************************************)
MaxRecipes == 1     \* recipes created in one behaviour
MaxLen == 2         \* longest ingredient / tag list of a request payload
MaxAmountRows == 4  \* IngredientAmount primary keys handed out in one behaviour
MaxCatalogRows == 4 \* rows of a catalogue table the import commands fill
MaxAmount == 125    \* largest amount of a stored IngredientAmount row

(***************************************************************************)
(* Fixture data.                                                           *)
(***************************************************************************)
User == {1, 2}                  \* registered users (primary keys)
Anonymous == 0                  \* request.user of an unauthenticated client
MissingId == 9                  \* a primary key no table holds
Requesters == User \cup {Anonymous}

\* Ingredient has no unique constraint: rows 1 and 3 carry the same name and
\* unit.  Units are written in Latin letters ("g" for the catalogue's gram,
\* "stakan" for its glass, "po vkusu" for its "to taste", a unit UNIT_FORMS
\* does not list).
Ingredient == (1 :> [name |-> "flour", measurement_unit |-> "g"]) @@
              (2 :> [name |-> "sugar", measurement_unit |-> "g"]) @@
              (3 :> [name |-> "flour", measurement_unit |-> "g"]) @@
              (4 :> [name |-> "flour", measurement_unit |-> "stakan"]) @@
              (5 :> [name |-> "sugar", measurement_unit |-> "po vkusu"])

Tag == (1 :> [name |-> "lunch", slug |-> "lunch"]) @@
       (2 :> [name |-> "breakfast", slug |-> "breakfast"])

\* Tag.Meta.ordering = ('name',): "breakfast" < "lunch"
TagOrdering == <<2, 1>>

IsAuthenticated(user) == user \in User

(***************************************************************************)
(* Responses.                                                              *)
(***************************************************************************)
Worker == {1, 2}                \* server workers answering requests in parallel
Idle == [at |-> "idle"]
NoWorkers == [w \in Worker |-> Idle]

\* no import file at hand, the import commands' tables empty
NoCatalog == [Ingredient |-> <<>>, Tag |-> <<>>, ingredients_json |-> <<>>,
              tags_json |-> <<>>]

NoRequest == [op |-> "none"]
NoResponse == [status |-> 0, body |-> [kind |-> "none"]]
Empty == [kind |-> "empty"]
Errors(code) == [kind |-> "errors", code |-> code]

Response(status, body) == [status |-> status, body |-> body]

HTTP_200_OK == 200
HTTP_201_CREATED == 201
HTTP_204_NO_CONTENT == 204
HTTP_400_BAD_REQUEST == 400
HTTP_401_UNAUTHORIZED == 401
HTTP_403_FORBIDDEN == 403
HTTP_404_NOT_FOUND == 404
HTTP_500_INTERNAL_SERVER_ERROR == 500

(***************************************************************************)
(* ORM operations on a table held as a bag of rows.                        *)
(***************************************************************************)
exists(objects, row) == BagIn(row, objects)

\* Model.objects.create under the table's UniqueConstraint
UniqueViolation(objects, row) == BagIn(row, objects)

\* Subscription's CheckConstraint prevent_self_subscription
CheckViolation(row) == row.user = row.author

insert(objects, row) == objects (+) SetToBag({row})

\* instance.delete(): the one row fetched
delete(objects, row) == objects (-) SetToBag({row})

\* QuerySet.delete(): every row the filter matches
queryset_delete(objects, row) ==
    [x \in BagToSet(objects) \ {row} |-> objects[x]]

get_or_create_always(objects, row) ==
    [objects |-> insert(objects, row), created |-> TRUE]

\* QuerySet.get_or_create: the row is looked up and created only when absent;
\* a unique violation of the insert is answered by a second lookup.
get_or_create(objects, row) ==
    IF exists(objects, row)
    THEN [objects |-> objects, created |-> FALSE]
    ELSE IF UniqueViolation(objects, row)
         THEN [objects |-> objects, created |-> FALSE]
         ELSE [objects |-> insert(objects, row), created |-> TRUE]

Copies(objects, row) == CopiesIn(row, objects)

(***************************************************************************)
(* Read serializers.                                                       *)
(***************************************************************************)
RECURSIVE SelectSeq2(_, _)
SelectSeq2(s, S) ==
    IF s = <<>> THEN <<>>
    ELSE IF Head(s) \in S THEN <<Head(s)>> \o SelectSeq2(Tail(s), S)
         ELSE SelectSeq2(Tail(s), S)

\* UserSerializer.get_is_subscribed
get_is_subscribed(user, author, subs) ==
    IF IsAuthenticated(user)
    THEN exists(subs, [user |-> user, author |-> author])
    ELSE FALSE

UserSerializer(user, author, subs) ==
    [id |-> author, is_subscribed |-> get_is_subscribed(user, author, subs)]

\* RecipeSerializer._check_relation
check_relation(user, recipe, relation) ==
    IF IsAuthenticated(user)
    THEN exists(relation, [user |-> user, recipe |-> recipe])
    ELSE FALSE

\* IngredientInRecipeSerializer read over recipe.ingredient_amounts: the field
\* "id" has no source, so it is read from the IngredientAmount row itself.
RECURSIVE IngredientInRecipeSerializer(_, _)
IngredientInRecipeSerializer(rows, recipe) ==
    IF rows = <<>> THEN <<>>
    ELSE IF Head(rows).recipe = recipe
         THEN <<[id |-> Head(rows).id,
                 name |-> Ingredient[Head(rows).ingredient].name,
                 measurement_unit |->
                     Ingredient[Head(rows).ingredient].measurement_unit,
                 amount |-> Head(rows).amount]>>
              \o IngredientInRecipeSerializer(Tail(rows), recipe)
         ELSE IngredientInRecipeSerializer(Tail(rows), recipe)

RecipeSerializer(user, pk, recipes, amounts, favs, carts, subs) ==
    [kind |-> "recipe",
     id |-> pk,
     tags |-> SelectSeq2(TagOrdering, recipes[pk].tags),
     author |-> UserSerializer(user, recipes[pk].author, subs),
     ingredients |-> IngredientInRecipeSerializer(amounts, pk),
     is_favorited |-> check_relation(user, pk, favs),
     is_in_shopping_cart |-> check_relation(user, pk, carts),
     name |-> recipes[pk].name,
     cooking_time |-> recipes[pk].cooking_time]

\* UserWithRecipesSerializer: the author with the ids of the author's recipes
UserWithRecipesSerializer(user, author, recipes, subs) ==
    [kind |-> "user",
     id |-> author,
     is_subscribed |-> get_is_subscribed(user, author, subs),
     recipes |-> {r \in DOMAIN recipes : recipes[r].author = author},
     recipes_count |->
         Cardinality({r \in DOMAIN recipes : recipes[r].author = author})]

(***************************************************************************)
(* Favorite / shopping-cart toggle, backend/api/views.py.                  *)
(***************************************************************************)
Result(objects, status, body) ==
    [objects |-> objects, status |-> status, body |-> body]

RecipeBody == [kind |-> "recipe"]
UserBody == [kind |-> "user"]

handle_recipe_action_of_every_user(user, method, pk, objects) ==
    LET row == [user |-> user, recipe |-> pk]
    IN  IF method = "DELETE"
        THEN IF ~exists(objects, row)
             THEN Result(objects, HTTP_404_NOT_FOUND, Errors("not_found"))
             ELSE Result(SetToBag({r \in BagToSet(objects) : r.recipe # pk}),
                         HTTP_204_NO_CONTENT, Empty)
        ELSE IF pk \notin DOMAIN Recipe
             THEN Result(objects, HTTP_404_NOT_FOUND, Errors("not_found"))
             ELSE LET goc == get_or_create(objects, row)
                  IN  IF ~goc.created
                      THEN Result(goc.objects, HTTP_400_BAD_REQUEST,
                                  Errors("already_added"))
                      ELSE Result(goc.objects, HTTP_201_CREATED, RecipeBody)

handle_recipe_action_no_404(user, method, pk, objects) ==
    LET row == [user |-> user, recipe |-> pk]
    IN  IF method = "DELETE"
        THEN Result(delete(objects, row), HTTP_204_NO_CONTENT, Empty)
        ELSE LET goc == get_or_create(objects, row)
             IN  IF ~goc.created
                 THEN Result(goc.objects, HTTP_400_BAD_REQUEST,
                             Errors("already_added"))
                 ELSE Result(goc.objects, HTTP_201_CREATED, RecipeBody)

handle_recipe_action_no_duplicate_check(user, method, pk, objects) ==
    LET row == [user |-> user, recipe |-> pk]
    IN  IF method = "DELETE"
        THEN IF ~exists(objects, row)
             THEN Result(objects, HTTP_404_NOT_FOUND, Errors("not_found"))
             ELSE Result(delete(objects, row), HTTP_204_NO_CONTENT, Empty)
        ELSE IF pk \notin DOMAIN Recipe
             THEN Result(objects, HTTP_404_NOT_FOUND, Errors("not_found"))
             ELSE Result(get_or_create(objects, row).objects,
                         HTTP_201_CREATED, RecipeBody)

\* RecipeViewSet._handle_recipe_action(request, pk, model_class); objects is
\* model_class.objects.  The 201 body is rendered by the calling action.
handle_recipe_action(user, method, pk, objects) ==
    LET row == [user |-> user, recipe |-> pk]
    IN  IF method = "DELETE"
        THEN IF ~exists(objects, row)
             THEN Result(objects, HTTP_404_NOT_FOUND, Errors("not_found"))
             ELSE Result(delete(objects, row), HTTP_204_NO_CONTENT, Empty)
        ELSE IF pk \notin DOMAIN Recipe
             THEN Result(objects, HTTP_404_NOT_FOUND, Errors("not_found"))
             ELSE LET goc == get_or_create(objects, row)
                  IN  IF ~goc.created
                      THEN Result(goc.objects, HTTP_400_BAD_REQUEST,
                                  Errors("already_added"))
                      ELSE Result(goc.objects, HTTP_201_CREATED, RecipeBody)

\* permission_classes=[IsAuthenticated] of the detail actions
NotAuthenticated(objects) ==
    Result(objects, HTTP_401_UNAUTHORIZED, Errors("not_authenticated"))

\* backend/recipes/views.py: RecipeViewSet.favorite and .shopping_cart share
\* one body: get_object() first, then get_or_create or get_object_or_404.
recipes_views_toggle(user, method, pk, objects) ==
    LET row == [user |-> user, recipe |-> pk]
    IN  IF pk \notin DOMAIN Recipe
        THEN Result(objects, HTTP_404_NOT_FOUND, Errors("not_found"))
        ELSE IF method = "POST"
             THEN LET goc == get_or_create(objects, row)
                  IN  IF ~goc.created
                      THEN Result(goc.objects, HTTP_400_BAD_REQUEST,
                                  Errors("already_added"))
                      ELSE Result(goc.objects, HTTP_201_CREATED, RecipeBody)
             ELSE IF ~exists(objects, row)
                  THEN Result(objects, HTTP_404_NOT_FOUND, Errors("not_found"))
                  ELSE Result(delete(objects, row), HTTP_204_NO_CONTENT, Empty)

ToggleRequest(op, view, method, user, pk) ==
    [op |-> op, view |-> view, method |-> method, user |-> user, pk |-> pk]

Methods == {"POST", "DELETE"}
RecipePks == DOMAIN Recipe \cup {MissingId}

\* api.views.RecipeViewSet.favorite
favorite(user, method, pk) ==
    /\ request = NoRequest
    /\ LET res == IF IsAuthenticated(user)
                  THEN handle_recipe_action(user, method, pk, Favorite)
                  ELSE NotAuthenticated(Favorite)
       IN  /\ Favorite' = res.objects
           /\ response' =
                 IF res.body = RecipeBody
                 THEN Response(res.status,
                               RecipeSerializer(user, pk, Recipe,
                                   IngredientAmount, res.objects,
                                   ShoppingCart, Subscription))
                 ELSE Response(res.status, res.body)
    /\ request' = ToggleRequest("favorite", "api", method, user, pk)
    /\ UNCHANGED <<Recipe, IngredientAmount, ShoppingCart, Subscription,
                   nextRecipeId, nextAmountId, workers, catalog>>

\* api.views.RecipeViewSet.shopping_cart
shopping_cart(user, method, pk) ==
    /\ request = NoRequest
    /\ LET res == IF IsAuthenticated(user)
                  THEN handle_recipe_action(user, method, pk, ShoppingCart)
                  ELSE NotAuthenticated(ShoppingCart)
       IN  /\ ShoppingCart' = res.objects
           /\ response' =
                 IF res.body = RecipeBody
                 THEN Response(res.status,
                               RecipeSerializer(user, pk, Recipe,
                                   IngredientAmount, Favorite,
                                   res.objects, Subscription))
                 ELSE Response(res.status, res.body)
    /\ request' = ToggleRequest("shopping_cart", "api", method, user, pk)
    /\ UNCHANGED <<Recipe, IngredientAmount, Favorite, Subscription,
                   nextRecipeId, nextAmountId, workers, catalog>>

\* recipes.views.RecipeViewSet.favorite
recipes_views_favorite(user, method, pk) ==
    /\ request = NoRequest
    /\ LET res == IF IsAuthenticated(user)
                  THEN recipes_views_toggle(user, method, pk, Favorite)
                  ELSE NotAuthenticated(Favorite)
       IN  /\ Favorite' = res.objects
           /\ response' =
                 IF res.body = RecipeBody
                 THEN Response(res.status,
                               RecipeSerializer(user, pk, Recipe,
                                   IngredientAmount, res.objects,
                                   ShoppingCart, Subscription))
                 ELSE Response(res.status, res.body)
    /\ request' = ToggleRequest("favorite", "recipes", method, user, pk)
    /\ UNCHANGED <<Recipe, IngredientAmount, ShoppingCart, Subscription,
                   nextRecipeId, nextAmountId, workers, catalog>>

\* recipes.views.RecipeViewSet.shopping_cart
recipes_views_shopping_cart(user, method, pk) ==
    /\ request = NoRequest
    /\ LET res == IF IsAuthenticated(user)
                  THEN recipes_views_toggle(user, method, pk, ShoppingCart)
                  ELSE NotAuthenticated(ShoppingCart)
       IN  /\ ShoppingCart' = res.objects
           /\ response' =
                 IF res.body = RecipeBody
                 THEN Response(res.status,
                               RecipeSerializer(user, pk, Recipe,
                                   IngredientAmount, Favorite,
                                   res.objects, Subscription))
                 ELSE Response(res.status, res.body)
    /\ request' = ToggleRequest("shopping_cart", "recipes", method, user, pk)
    /\ UNCHANGED <<Recipe, IngredientAmount, Favorite, Subscription,
                   nextRecipeId, nextAmountId, workers, catalog>>

(***************************************************************************)
(* Subscription toggle.                                                    *)
(***************************************************************************)
SameUserNever(user, author) == FALSE

\* "if user == author" of both subscribe views
SameUser(user, author) == user = author

UserIds == User \cup {MissingId}

SubscribeRequest(view, method, user, id) ==
    [op |-> "subscribe", view |-> view, method |-> method, user |-> user,
     id |-> id]

\* api.views.UserFoodgramViewSet.subscribe, DELETE branch
subscribe_delete(user, id, objects) ==
    LET row == [user |-> user, author |-> id]
    IN  IF ~exists(objects, row)
        THEN Result(objects, HTTP_404_NOT_FOUND, Errors("not_found"))
        ELSE Result(delete(objects, row), HTTP_204_NO_CONTENT, Empty)

subscribe_post_unchecked(user, id, objects) ==
    IF id \notin User
    THEN Result(objects, HTTP_404_NOT_FOUND, Errors("not_found"))
    ELSE Result(insert(objects, [user |-> user, author |-> id]),
                HTTP_201_CREATED, UserBody)

subscribe_post_no_duplicate_check(user, id, objects) ==
    LET row == [user |-> user, author |-> id]
    IN  IF id \notin User
        THEN Result(objects, HTTP_404_NOT_FOUND, Errors("not_found"))
        ELSE IF SameUser(user, id)
        THEN Result(objects, HTTP_400_BAD_REQUEST, Errors("self_subscription"))
        ELSE Result(get_or_create(objects, row).objects,
                    HTTP_201_CREATED, UserBody)

\* api.views.UserFoodgramViewSet.subscribe, POST branch
subscribe_post(user, id, objects) ==
    LET row == [user |-> user, author |-> id]
    IN  IF id \notin User
        THEN Result(objects, HTTP_404_NOT_FOUND, Errors("not_found"))
        ELSE IF SameUser(user, id)
        THEN Result(objects, HTTP_400_BAD_REQUEST, Errors("self_subscription"))
        ELSE IF ~exists(objects, row) /\ CheckViolation(row)
        THEN Result(objects, HTTP_500_INTERNAL_SERVER_ERROR,
                    Errors("IntegrityError"))
        ELSE LET goc == get_or_create(objects, row)
             IN  IF ~goc.created
                 THEN Result(goc.objects, HTTP_400_BAD_REQUEST,
                             Errors("already_subscribed"))
                 ELSE Result(goc.objects, HTTP_201_CREATED, UserBody)

\* api.views.UserFoodgramViewSet.subscribe
subscribe(user, method, id) ==
    /\ request = NoRequest
    /\ LET res == IF ~IsAuthenticated(user)
                  THEN NotAuthenticated(Subscription)
                  ELSE IF method = "DELETE"
                  THEN subscribe_delete(user, id, Subscription)
                  ELSE subscribe_post(user, id, Subscription)
       IN  /\ Subscription' = res.objects
           /\ response' =
                 IF res.body = UserBody
                 THEN Response(res.status,
                               UserWithRecipesSerializer(user, id, Recipe,
                                                         res.objects))
                 ELSE Response(res.status, res.body)
    /\ request' = SubscribeRequest("api", method, user, id)
    /\ UNCHANGED <<Recipe, IngredientAmount, Favorite, ShoppingCart,
                   nextRecipeId, nextAmountId, workers, catalog>>

\* users.views.CustomUserViewSet.subscribe, after author = self.get_object().
\* The view imports Subscription from users.models, which the repository does
\* not hold; it is taken to be the Subscription table of recipes.models.
users_views_subscribe_body(user, method, id, objects) ==
    LET row == [user |-> user, author |-> id]
    IN  IF id \notin User
        THEN Result(objects, HTTP_404_NOT_FOUND, Errors("not_found"))
        ELSE IF method = "POST"
        THEN IF SameUser(user, id)
             THEN Result(objects, HTTP_400_BAD_REQUEST,
                         Errors("self_subscription"))
             ELSE IF exists(objects, row)
             THEN Result(objects, HTTP_400_BAD_REQUEST,
                         Errors("already_subscribed"))
             ELSE IF UniqueViolation(objects, row) \/ CheckViolation(row)
             THEN Result(objects, HTTP_500_INTERNAL_SERVER_ERROR,
                         Errors("IntegrityError"))
             ELSE Result(insert(objects, row), HTTP_201_CREATED, UserBody)
        ELSE IF ~exists(objects, row)
             THEN Result(objects, HTTP_400_BAD_REQUEST,
                         Errors("not_subscribed"))
             ELSE Result(queryset_delete(objects, row), HTTP_204_NO_CONTENT,
                         Empty)

\* users.views.CustomUserViewSet.subscribe
users_views_subscribe(user, method, id) ==
    /\ request = NoRequest
    /\ LET res == IF ~IsAuthenticated(user)
                  THEN NotAuthenticated(Subscription)
                  ELSE users_views_subscribe_body(user, method, id,
                                                  Subscription)
       IN  /\ Subscription' = res.objects
           /\ response' =
                 IF res.body = UserBody
                 THEN Response(res.status,
                               UserWithRecipesSerializer(user, id, Recipe,
                                                         res.objects))
                 ELSE Response(res.status, res.body)
    /\ request' = SubscribeRequest("users", method, user, id)
    /\ UNCHANGED <<Recipe, IngredientAmount, Favorite, ShoppingCart,
                   nextRecipeId, nextAmountId, workers, catalog>>

(***************************************************************************)
(* Recipe write path: request payloads.                                    *)
(*                                                                         *)
(* A payload is request.data cut to the fields the handlers branch on:     *)
(* ingredients, tags and cooking_time, each present or omitted, and name   *)
(* (text and image are taken as supplied and valid).                       *)
(***************************************************************************)
MIN_AMOUNT == 1
MIN_COOKING_TIME == 1

\* IngredientAmount.amount = models.PositiveIntegerField(...): the column
\* takes 0 .. 2147483647, while the serializers' IntegerField(min_value=...)
\* sets no upper limit.  The model checker's integers end at 2147483647, so
\* the model draws the column's limit one lower and sends 2147483647 as the
\* amount beyond it.
PositiveIntegerMax == 2147483646

PositiveIntegerField(amount) == amount \in 0..PositiveIntegerMax

SeqsUpTo(S, n) == UNION {[1..k -> S] : k \in 0..n}

Amounts == {0, 1}
CookingTimes == {0, 1}
Names == {"soup"}

\* the Ingredient rows the payloads name
PayloadIngredients == {1, 2}

IngredientEntries == [id : PayloadIngredients, amount : Amounts]

Omitted(value) == [present |-> FALSE, value |-> value]
Given(value) == [present |-> TRUE, value |-> value]

Payloads ==
    [ingredients : {Omitted(<<>>)}
                   \cup {Given(l) : l \in SeqsUpTo(IngredientEntries, MaxLen)},
     tags : {Omitted(<<>>)}
            \cup {Given(l) : l \in SeqsUpTo(DOMAIN Tag, MaxLen)},
     cooking_time : {Omitted(0)} \cup {Given(c) : c \in CookingTimes},
     name : Names]

\* the payloads whose amounts and cooking time pass the field validation
WellFormedPayloads ==
    {data \in Payloads :
        /\ \A i \in DOMAIN data.ingredients.value :
              data.ingredients.value[i].amount >= 1
        /\ data.cooking_time.present => data.cooking_time.value >= 1}

\* complete payloads whose amounts pass the field validation, one of them
\* beyond the range of the amount column
LargeAmounts == {1, PositiveIntegerMax + 1}

LargePayloads ==
    [ingredients : {Given(l) : l \in SeqsUpTo([id : PayloadIngredients,
                                               amount : LargeAmounts],
                                              MaxLen)},
     tags : {Given(l) : l \in SeqsUpTo(DOMAIN Tag, MaxLen)},
     cooking_time : {Given(1)},
     name : Names]

\* payloads over ingredient 1 and tag 1 alone: valid ones and each kind of
\* invalid one (a repeated ingredient, a repeated tag, a zero amount, a zero
\* cooking time, an omitted field)
SmallPayloads ==
    {data \in Payloads :
        /\ data.ingredients.value
              \in {<<>>, <<[id |-> 1, amount |-> 1]>>,
                   <<[id |-> 1, amount |-> 0]>>,
                   <<[id |-> 1, amount |-> 1], [id |-> 1, amount |-> 1]>>}
        /\ data.tags.value \in {<<>>, <<1>>, <<1, 1>>}}

\* the payloads of SmallPayloads, sent with or without an author field
AuthoredPayloads ==
    {[ingredients |-> data.ingredients, tags |-> data.tags,
      cooking_time |-> data.cooking_time, name |-> data.name,
      author |-> author] :
        data \in SmallPayloads,
        author \in {Omitted(0)} \cup {Given(u) : u \in User}}

WriteRequest(op, view, user, pk, data) ==
    [op |-> op, view |-> view, user |-> user, pk |-> pk, data |-> data]

(***************************************************************************)
(* Validation, backend/api/serializers.py.                                 *)
(***************************************************************************)
Range(s) == {s[i] : i \in DOMAIN s}

Count(s, x) == Cardinality({i \in DOMAIN s : s[i] = x})

Ids(ingredients_data) ==
    [i \in DOMAIN ingredients_data |-> ingredients_data[i].id]

\* RecipeCreateUpdateSerializer.find_duplicates: ids counted more than once
find_duplicates(ids) == {x \in Range(ids) : Count(ids, x) > 1}

\* RecipeCreateUpdateSerializer._validate_no_duplicates: TRUE when it returns
\* the data, FALSE when it raises ValidationError
validate_no_duplicates(ids) == find_duplicates(ids) = {}

validate_ingredients_accept_all(ingredients_data) == TRUE

validate_ingredients(ingredients_data) ==
    validate_no_duplicates(Ids(ingredients_data))

validate_tags_accept_all(tags_data) == TRUE

validate_tags(tags_data) == validate_no_duplicates(tags_data)

amount_field_accept_all(amount) == TRUE

\* IngredientInRecipeSerializer.amount = IntegerField(min_value=MIN_AMOUNT)
amount_field(amount) == amount >= MIN_AMOUNT

\* RecipeCreateUpdateSerializer.cooking_time = IntegerField(min_value=MIN_AMOUNT)
cooking_time_field(cooking_time) == cooking_time >= MIN_AMOUNT

\* IngredientInRecipeSerializer(many=True).run_validation: every entry names an
\* Ingredient row and carries a valid amount
ingredients_field(ingredients_data) ==
    \A i \in DOMAIN ingredients_data :
        /\ ingredients_data[i].id \in DOMAIN Ingredient
        /\ amount_field(ingredients_data[i].amount)

\* PrimaryKeyRelatedField(queryset=Tag.objects.all(), many=True)
tags_field(tags_data) == \A i \in DOMAIN tags_data : tags_data[i] \in DOMAIN Tag

\* serializer.is_valid(): every supplied field passes its field validation and
\* its validate_<field>; an omitted field fails unless the update is partial
is_valid(data, partial) ==
    /\ IF data.ingredients.present
       THEN /\ ingredients_field(data.ingredients.value)
            /\ validate_ingredients(data.ingredients.value)
       ELSE partial
    /\ IF data.tags.present
       THEN /\ tags_field(data.tags.value)
            /\ validate_tags(data.tags.value)
       ELSE partial
    /\ IF data.cooking_time.present
       THEN cooking_time_field(data.cooking_time.value)
       ELSE partial

(***************************************************************************)
(* Validation, backend/recipes/serializers.py.                             *)
(***************************************************************************)
\* validate_ingredients: len(ingredients) != len(set(ingredients)) raises
recipes_validate_ingredients(value) ==
    Len(Ids(value)) = Cardinality(Range(Ids(value)))

\* validate_tags: len(value) != len(set(value)) raises
recipes_validate_tags(value) == Len(value) = Cardinality(Range(value))

\* amount = serializers.IntegerField(min_value=1)
recipes_amount_field(amount) == amount >= 1

\* cooking_time = serializers.IntegerField(min_value=1)
recipes_cooking_time_field(cooking_time) == cooking_time >= 1

recipes_is_valid(data, partial) ==
    /\ IF data.ingredients.present
       THEN /\ \A i \in DOMAIN data.ingredients.value :
                 /\ data.ingredients.value[i].id \in DOMAIN Ingredient
                 /\ recipes_amount_field(data.ingredients.value[i].amount)
            /\ recipes_validate_ingredients(data.ingredients.value)
       ELSE partial
    /\ IF data.tags.present
       THEN /\ tags_field(data.tags.value)
            /\ recipes_validate_tags(data.tags.value)
       ELSE partial
    /\ IF data.cooking_time.present
       THEN recipes_cooking_time_field(data.cooking_time.value)
       ELSE partial

(***************************************************************************)
(* Writes to the store.                                                    *)
(***************************************************************************)
Written(recipes, amounts, rid, aid, status, body) ==
    [Recipe |-> recipes, IngredientAmount |-> amounts, nextRecipeId |-> rid,
     nextAmountId |-> aid, status |-> status, body |-> body]

Refused_after_delete(status, code) ==
    Written(Recipe, <<>>, nextRecipeId, nextAmountId, status, Errors(code))

Refused(status, code) ==
    Written(Recipe, IngredientAmount, nextRecipeId, nextAmountId, status,
            Errors(code))

\* the IngredientAmount rows create_ingredients builds, keyed from aid on
NewRows(recipe, ingredients, aid) ==
    [i \in DOMAIN ingredients |->
        [id |-> aid + i - 1, recipe |-> recipe,
         ingredient |-> ingredients[i].id, amount |-> ingredients[i].amount]]

\* UniqueConstraint unique_ingredient_in_recipe over the rows after an insert
unique_ingredient_in_recipe(rows) ==
    \A i, j \in DOMAIN rows :
        (rows[i].recipe = rows[j].recipe
         /\ rows[i].ingredient = rows[j].ingredient) => i = j

\* bulk_create's INSERT takes the rows only if every amount fits its column
in_range(ingredients) ==
    \A i \in DOMAIN ingredients : PositiveIntegerField(ingredients[i].amount)

delete_ingredient_amounts_none(rows, recipe) == rows

\* instance.ingredient_amounts.all().delete()
delete_ingredient_amounts(rows, recipe) ==
    SelectSeq(rows, LAMBDA row : row.recipe # recipe)

IsAuthorOrReadOnly_allow_all(user, recipe) == TRUE

\* IsAuthorOrReadOnly.has_object_permission for an unsafe method
IsAuthorOrReadOnly(user, recipe) == recipe.author = user

validated_author_of_payload(user, data) ==
    IF "author" \in DOMAIN data /\ data.author.present
    THEN data.author.value
    ELSE user

\* the author the recipe is created with: Meta.fields names no 'author', so
\* one sent in the payload never reaches validated_data, and perform_create
\* and create() set validated_data['author'] to request.user
validated_author(user, data) == user

\* RecipeCreateUpdateSerializer.create with the view's response: the recipe
\* row, then tags.set, then bulk_create; the response is rendered from
\* RecipeCreateUpdateSerializer, whose field "ingredients" reads
\* recipe.ingredients, an attribute Recipe does not have.
create_recipe(user, data) ==
    IF ~IsAuthenticated(user)
    THEN Refused(HTTP_401_UNAUTHORIZED, "not_authenticated")
    ELSE IF ~is_valid(data, FALSE)
    THEN Refused(HTTP_400_BAD_REQUEST, "invalid")
    ELSE LET pk == nextRecipeId
             recipes == (pk :> [author |-> validated_author(user, data),
                                name |-> data.name,
                                cooking_time |-> data.cooking_time.value,
                                tags |-> Range(data.tags.value)]) @@ Recipe
             rows == IngredientAmount
                     \o NewRows(pk, data.ingredients.value, nextAmountId)
             aid == nextAmountId + Len(data.ingredients.value)
         IN  IF ~in_range(data.ingredients.value)
             THEN Written(recipes, IngredientAmount, pk + 1, nextAmountId,
                          HTTP_500_INTERNAL_SERVER_ERROR, Errors("DataError"))
             ELSE IF ~unique_ingredient_in_recipe(rows)
             THEN Written(recipes, IngredientAmount, pk + 1, aid,
                          HTTP_500_INTERNAL_SERVER_ERROR,
                          Errors("IntegrityError"))
             ELSE Written(recipes, rows, pk + 1, aid,
                          HTTP_500_INTERNAL_SERVER_ERROR,
                          Errors("AttributeError"))

\* RecipeCreateUpdateSerializer.update with the view's response, statement by
\* statement: tags.set(tags), the delete of the old rows, create_ingredients,
\* then the remaining fields; a popped None raises TypeError where it is
\* first iterated.
update_recipe(user, pk, data, partial) ==
    IF ~IsAuthenticated(user)
    THEN Refused(HTTP_401_UNAUTHORIZED, "not_authenticated")
    ELSE IF pk \notin DOMAIN Recipe
    THEN Refused(HTTP_404_NOT_FOUND, "not_found")
    ELSE IF ~IsAuthorOrReadOnly(user, Recipe[pk])
    THEN Refused(HTTP_403_FORBIDDEN, "permission_denied")
    ELSE IF ~is_valid(data, partial)
    THEN Refused(HTTP_400_BAD_REQUEST, "invalid")
    ELSE IF ~data.tags.present
    THEN Refused(HTTP_500_INTERNAL_SERVER_ERROR, "TypeError")
    ELSE LET tagged == [Recipe EXCEPT ![pk].tags = Range(data.tags.value)]
             kept == delete_ingredient_amounts(IngredientAmount, pk)
             rows == kept \o NewRows(pk, data.ingredients.value, nextAmountId)
             aid == nextAmountId + Len(data.ingredients.value)
             named == [tagged EXCEPT ![pk].name = data.name]
             saved == IF data.cooking_time.present
                      THEN [named EXCEPT ![pk].cooking_time =
                                data.cooking_time.value]
                      ELSE named
         IN  IF ~data.ingredients.present
             THEN Written(tagged, kept, nextRecipeId, nextAmountId,
                          HTTP_500_INTERNAL_SERVER_ERROR, Errors("TypeError"))
             ELSE IF ~in_range(data.ingredients.value)
             THEN Written(tagged, kept, nextRecipeId, nextAmountId,
                          HTTP_500_INTERNAL_SERVER_ERROR, Errors("DataError"))
             ELSE IF ~unique_ingredient_in_recipe(rows)
             THEN Written(tagged, kept, nextRecipeId, aid,
                          HTTP_500_INTERNAL_SERVER_ERROR,
                          Errors("IntegrityError"))
             ELSE Written(saved, rows, nextRecipeId, aid,
                          HTTP_500_INTERNAL_SERVER_ERROR,
                          Errors("AttributeError"))

\* recipes.serializers.RecipeCreateUpdateSerializer.create under
\* recipes.views.RecipeViewSet.create
recipes_create_recipe(user, data) ==
    IF ~IsAuthenticated(user)
    THEN Refused(HTTP_401_UNAUTHORIZED, "not_authenticated")
    ELSE IF ~recipes_is_valid(data, FALSE)
    THEN Refused(HTTP_400_BAD_REQUEST, "invalid")
    ELSE LET pk == nextRecipeId
             recipes == (pk :> [author |-> validated_author(user, data),
                                name |-> data.name,
                                cooking_time |-> data.cooking_time.value,
                                tags |-> Range(data.tags.value)]) @@ Recipe
             rows == IngredientAmount
                     \o NewRows(pk, data.ingredients.value, nextAmountId)
             aid == nextAmountId + Len(data.ingredients.value)
         IN  IF ~in_range(data.ingredients.value)
             THEN Written(recipes, IngredientAmount, pk + 1, nextAmountId,
                          HTTP_500_INTERNAL_SERVER_ERROR, Errors("DataError"))
             ELSE IF ~unique_ingredient_in_recipe(rows)
             THEN Written(recipes, IngredientAmount, pk + 1, aid,
                          HTTP_500_INTERNAL_SERVER_ERROR,
                          Errors("IntegrityError"))
             ELSE Written(recipes, rows, pk + 1, aid, HTTP_201_CREATED,
                          RecipeBody)

\* recipes.serializers.RecipeCreateUpdateSerializer.update under
\* recipes.views.RecipeViewSet.update: the plain fields are saved first, tags
\* and ingredients are replaced only when supplied
recipes_update_recipe(user, pk, data, partial) ==
    IF ~IsAuthenticated(user)
    THEN Refused(HTTP_401_UNAUTHORIZED, "not_authenticated")
    ELSE IF pk \notin DOMAIN Recipe
    THEN Refused(HTTP_404_NOT_FOUND, "not_found")
    ELSE IF ~IsAuthorOrReadOnly(user, Recipe[pk])
    THEN Refused(HTTP_403_FORBIDDEN, "permission_denied")
    ELSE IF ~recipes_is_valid(data, partial)
    THEN Refused(HTTP_400_BAD_REQUEST, "invalid")
    ELSE LET named == [Recipe EXCEPT ![pk].name = data.name]
             saved == IF data.cooking_time.present
                      THEN [named EXCEPT ![pk].cooking_time =
                                data.cooking_time.value]
                      ELSE named
             tagged == IF data.tags.present
                       THEN [saved EXCEPT ![pk].tags = Range(data.tags.value)]
                       ELSE saved
             kept == delete_ingredient_amounts(IngredientAmount, pk)
             rows == kept \o NewRows(pk, data.ingredients.value, nextAmountId)
             aid == nextAmountId + Len(data.ingredients.value)
         IN  IF ~data.ingredients.present
             THEN Written(tagged, IngredientAmount, nextRecipeId,
                          nextAmountId, HTTP_200_OK, RecipeBody)
             ELSE IF ~in_range(data.ingredients.value)
             THEN Written(tagged, kept, nextRecipeId, nextAmountId,
                          HTTP_500_INTERNAL_SERVER_ERROR, Errors("DataError"))
             ELSE IF ~unique_ingredient_in_recipe(rows)
             THEN Written(tagged, kept, nextRecipeId, aid,
                          HTTP_500_INTERNAL_SERVER_ERROR,
                          Errors("IntegrityError"))
             ELSE Written(tagged, rows, nextRecipeId, aid, HTTP_200_OK,
                          RecipeBody)

\* the store and the response after a write to recipe pk; the primary keys
\* handed out stay within the model's bounds
Commit(res, req, pk) ==
    /\ request = NoRequest
    /\ res.nextRecipeId > nextRecipeId => res.nextRecipeId <= MaxRecipes + 1
    /\ res.nextAmountId > nextAmountId => res.nextAmountId <= MaxAmountRows + 1
    /\ Recipe' = res.Recipe
    /\ IngredientAmount' = res.IngredientAmount
    /\ nextRecipeId' = res.nextRecipeId
    /\ nextAmountId' = res.nextAmountId
    /\ response' =
          IF res.body = RecipeBody
          THEN Response(res.status,
                        RecipeSerializer(req.user, pk, res.Recipe,
                            res.IngredientAmount, Favorite, ShoppingCart,
                            Subscription))
          ELSE Response(res.status, res.body)
    /\ request' = req
    /\ UNCHANGED <<Favorite, ShoppingCart, Subscription, workers, catalog>>

CreateRequest(view, user, data) ==
    [op |-> "create", view |-> view, user |-> user, data |-> data]

\* api.views.RecipeViewSet: POST /recipes/
create(user, data) ==
    Commit(create_recipe(user, data), CreateRequest("api", user, data),
           nextRecipeId)

\* api.views.RecipeViewSet: PUT /recipes/{pk}/
update(user, pk, data) ==
    Commit(update_recipe(user, pk, data, FALSE),
           WriteRequest("update", "api", user, pk, data), pk)

\* api.views.RecipeViewSet: PATCH /recipes/{pk}/
partial_update(user, pk, data) ==
    Commit(update_recipe(user, pk, data, TRUE),
           WriteRequest("partial_update", "api", user, pk, data), pk)

\* recipes.views.RecipeViewSet.create
recipes_views_create(user, data) ==
    Commit(recipes_create_recipe(user, data),
           CreateRequest("recipes", user, data), nextRecipeId)

\* recipes.views.RecipeViewSet.update, PUT
recipes_views_update(user, pk, data) ==
    Commit(recipes_update_recipe(user, pk, data, FALSE),
           WriteRequest("update", "recipes", user, pk, data), pk)

\* recipes.views.RecipeViewSet.update, PATCH (partial=True)
recipes_views_partial_update(user, pk, data) ==
    Commit(recipes_update_recipe(user, pk, data, TRUE),
           WriteRequest("partial_update", "recipes", user, pk, data), pk)

(***************************************************************************)
(* Recipe reads and delete, backend/api/views.py (ModelViewSet actions     *)
(* under permission_classes = [IsAuthorOrReadOnly]).                       *)
(***************************************************************************)
ReadRequest(op, user, pk) ==
    [op |-> op, view |-> "api", user |-> user, pk |-> pk]

\* Recipe.Meta.ordering = ('-created_at',): the newest recipe first
RECURSIVE Newest(_)
Newest(pks) ==
    IF pks = {} THEN <<>>
    ELSE LET last == CHOOSE x \in pks : \A y \in pks : y <= x
         IN  <<last>> \o Newest(pks \ {last})

\* api.views.RecipeViewSet.retrieve: a safe method passes has_permission and
\* has_object_permission for every client
retrieve(user, pk) ==
    /\ request = NoRequest
    /\ response' =
          IF pk \notin DOMAIN Recipe
          THEN Response(HTTP_404_NOT_FOUND, Errors("not_found"))
          ELSE Response(HTTP_200_OK,
                        RecipeSerializer(user, pk, Recipe, IngredientAmount,
                                         Favorite, ShoppingCart, Subscription))
    /\ request' = ReadRequest("retrieve", user, pk)
    /\ UNCHANGED <<Recipe, IngredientAmount, Favorite, ShoppingCart,
                   Subscription, nextRecipeId, nextAmountId, workers,
                   catalog>>

\* api.views.RecipeViewSet.list
list(user) ==
    /\ request = NoRequest
    /\ response' =
          Response(HTTP_200_OK,
                   [kind |-> "list",
                    results |->
                        [i \in DOMAIN Newest(DOMAIN Recipe) |->
                            RecipeSerializer(user, Newest(DOMAIN Recipe)[i],
                                Recipe, IngredientAmount, Favorite,
                                ShoppingCart, Subscription)]])
    /\ request' = ReadRequest("list", user, MissingId)
    /\ UNCHANGED <<Recipe, IngredientAmount, Favorite, ShoppingCart,
                   Subscription, nextRecipeId, nextAmountId, workers,
                   catalog>>

recipe_exists_always(pk) == TRUE

\* Recipe.objects.filter(id=pk).exists(), and get_object() of the older view
recipe_exists(pk) == pk \in DOMAIN Recipe

\* api.views.RecipeViewSet.get_link (AllowAny): the absolute URI of
\* reverse('recipes:recipe-short-link', kwargs={'pk': pk}), the path s/<pk>/
\* on the host of the request
get_link(user, pk) ==
    /\ request = NoRequest
    /\ response' =
          IF ~recipe_exists(pk)
          THEN Response(HTTP_404_NOT_FOUND, Errors("not_found"))
          ELSE Response(HTTP_200_OK,
                        [kind |-> "link"] @@
                        ("short-link" :>
                            [host |-> "request.get_host()",
                             path |-> <<"s", pk>>]))
    /\ request' = ReadRequest("get_link", user, pk)
    /\ UNCHANGED <<Recipe, IngredientAmount, Favorite, ShoppingCart,
                   Subscription, nextRecipeId, nextAmountId, workers,
                   catalog>>

\* recipes.views.RecipeViewSet.get_link (AllowAny):
\* f"https://foodgram.example.org/recipes/{recipe.id}/"
recipes_views_get_link(user, pk) ==
    /\ request = NoRequest
    /\ response' =
          IF ~recipe_exists(pk)
          THEN Response(HTTP_404_NOT_FOUND, Errors("not_found"))
          ELSE Response(HTTP_200_OK,
                        [kind |-> "link"] @@
                        ("short-link" :>
                            [host |-> "foodgram.example.org",
                             path |-> <<"recipes", pk>>]))
    /\ request' = [ReadRequest("get_link", user, pk)
                      EXCEPT !.view = "recipes"]
    /\ UNCHANGED <<Recipe, IngredientAmount, Favorite, ShoppingCart,
                   Subscription, nextRecipeId, nextAmountId, workers,
                   catalog>>

Destroyed(recipes, amounts, favs, carts, status, body) ==
    [Recipe |-> recipes, IngredientAmount |-> amounts, Favorite |-> favs,
     ShoppingCart |-> carts, status |-> status, body |-> body]

Denied(status, code) ==
    Destroyed(Recipe, IngredientAmount, Favorite, ShoppingCart, status,
              Errors(code))

cascade_none(objects, pk) == objects

\* the rows a ForeignKey(Recipe, on_delete=models.CASCADE) takes with recipe pk
cascade(objects, pk) ==
    [x \in {y \in BagToSet(objects) : y.recipe # pk} |-> objects[x]]

destroy_recipe_no_cascade(user, pk) ==
    IF ~IsAuthenticated(user)
    THEN Denied(HTTP_401_UNAUTHORIZED, "not_authenticated")
    ELSE IF pk \notin DOMAIN Recipe
    THEN Denied(HTTP_404_NOT_FOUND, "not_found")
    ELSE IF ~IsAuthorOrReadOnly(user, Recipe[pk])
    THEN Denied(HTTP_403_FORBIDDEN, "permission_denied")
    ELSE Destroyed([r \in DOMAIN Recipe \ {pk} |-> Recipe[r]],
                   IngredientAmount, Favorite, ShoppingCart,
                   HTTP_204_NO_CONTENT, Empty)

\* ModelViewSet.destroy: get_object() under IsAuthorOrReadOnly, then
\* instance.delete() with the cascade over IngredientAmount.recipe,
\* Favorite.recipe and ShoppingCart.recipe
destroy_recipe(user, pk) ==
    IF ~IsAuthenticated(user)
    THEN Denied(HTTP_401_UNAUTHORIZED, "not_authenticated")
    ELSE IF pk \notin DOMAIN Recipe
    THEN Denied(HTTP_404_NOT_FOUND, "not_found")
    ELSE IF ~IsAuthorOrReadOnly(user, Recipe[pk])
    THEN Denied(HTTP_403_FORBIDDEN, "permission_denied")
    ELSE Destroyed([r \in DOMAIN Recipe \ {pk} |-> Recipe[r]],
                   delete_ingredient_amounts(IngredientAmount, pk),
                   cascade(Favorite, pk), cascade(ShoppingCart, pk),
                   HTTP_204_NO_CONTENT, Empty)

\* api.views.RecipeViewSet.destroy
destroy(user, pk) ==
    /\ request = NoRequest
    /\ LET res == destroy_recipe(user, pk)
       IN  /\ Recipe' = res.Recipe
           /\ IngredientAmount' = res.IngredientAmount
           /\ Favorite' = res.Favorite
           /\ ShoppingCart' = res.ShoppingCart
           /\ response' = Response(res.status, res.body)
    /\ request' = ReadRequest("destroy", user, pk)
    /\ UNCHANGED <<Subscription, nextRecipeId, nextAmountId, workers,
                   catalog>>

(***************************************************************************)
(* Shopping list, backend/api/views.py and backend/api/shopping_list_utils *)
(***************************************************************************)
\* the database's collation of the names in use, and their capitalised forms
Alphabet == <<"bread", "flour", "soup", "sugar">>

Capitalized == ("flour" :> "Flour") @@ ("sugar" :> "Sugar")

Rank(name) ==
    LET lower == IF \E n \in DOMAIN Capitalized : Capitalized[n] = name
                 THEN CHOOSE n \in DOMAIN Capitalized : Capitalized[n] = name
                 ELSE name
    IN  CHOOSE i \in DOMAIN Alphabet : Alphabet[i] = lower

\* ' '.join(item['name'].split()).capitalize()
capitalize(name) == Capitalized[name]

UNIT_FORMS ==
    ("stakan" :> [one |-> "stakan", few |-> "stakana", many |-> "stakanov"]) @@
    ("g" :> [one |-> "gr.", few |-> "gr.", many |-> "gr."]) @@
    ("kg" :> [one |-> "kg.", few |-> "kg.", many |-> "kg."])

get_correct_unit_form_by_last_digit(amount, unit) ==
    IF unit \notin DOMAIN UNIT_FORMS
    THEN unit
    ELSE IF amount % 10 = 1
    THEN UNIT_FORMS[unit].one
    ELSE IF 2 <= amount % 10 /\ amount % 10 <= 4
    THEN UNIT_FORMS[unit].few
    ELSE UNIT_FORMS[unit].many

get_correct_unit_form(amount, unit) ==
    IF unit \notin DOMAIN UNIT_FORMS
    THEN unit
    ELSE IF amount % 10 = 1 /\ amount % 100 # 11
    THEN UNIT_FORMS[unit].one
    ELSE IF /\ 2 <= amount % 10
            /\ amount % 10 <= 4
            /\ (amount % 100 < 10 \/ amount % 100 >= 20)
    THEN UNIT_FORMS[unit].few
    ELSE UNIT_FORMS[unit].many

cart_amounts_unfiltered(user, rows, carts) == rows

\* IngredientAmount.objects.filter(recipe__shoppingcart__user=request.user):
\* the join yields a row once for every cart row of its recipe and the user
RECURSIVE cart_amounts(_, _, _)
cart_amounts(user, rows, carts) ==
    IF rows = <<>> THEN <<>>
    ELSE [i \in 1..Copies(carts, [user |-> user, recipe |-> Head(rows).recipe])
            |-> Head(rows)]
         \o cart_amounts(user, Tail(rows), carts)

\* Sum('amount') over the joined rows of one (name, unit) group
RECURSIVE Sum(_, _)
Sum(rows, group) ==
    IF rows = <<>> THEN 0
    ELSE (IF /\ Ingredient[Head(rows).ingredient].name = group.name
             /\ Ingredient[Head(rows).ingredient].measurement_unit
                  = group.unit
          THEN Head(rows).amount
          ELSE 0)
         + Sum(Tail(rows), group)

\* .values(name=F('ingredient__name'), unit=F('ingredient__measurement_unit'))
\* .annotate(total_amount=Sum('amount'))
annotate(rows) ==
    LET groups == {[name |-> Ingredient[rows[i].ingredient].name,
                    unit |-> Ingredient[rows[i].ingredient].measurement_unit] :
                   i \in DOMAIN rows}
    IN  {[name |-> g.name, unit |-> g.unit, total_amount |-> Sum(rows, g)] :
         g \in groups}

\* the listings of a queryset's rows, each row once
listings(items) ==
    {q \in [1..Cardinality(items) -> items] :
        \A i, j \in DOMAIN q : i # j => q[i] # q[j]}

order_by_any(items) == listings(items)

\* .order_by('name'): every listing of the items with the names ascending;
\* items of one name come in the order the database picks
order_by_name(items) ==
    {q \in listings(items) :
        \A i, j \in DOMAIN q : i < j => Rank(q[i].name) <= Rank(q[j].name)}

cart_recipes_of_all(user, recipes, carts) ==
    {[id |-> pk, name |-> recipes[pk].name, author |-> recipes[pk].author] :
     pk \in {r \in DOMAIN recipes :
                \E u \in User : BagIn([user |-> u, recipe |-> r], carts)}}

\* Recipe.objects.filter(shoppingcart__user=request.user).distinct()
cart_recipes(user, recipes, carts) ==
    {[id |-> pk, name |-> recipes[pk].name, author |-> recipes[pk].author] :
     pk \in {r \in DOMAIN recipes :
                BagIn([user |-> user, recipe |-> r], carts)}}

\* generate_shopping_list_content: the enumerated ingredient lines, the
\* enumerated recipe lines and the two totals (the header carries the date)
generate_shopping_list_content(ingredients, recipes) ==
    [kind |-> "file",
     ingredients |->
         [idx \in DOMAIN ingredients |->
             [idx |-> idx,
              name |-> capitalize(ingredients[idx].name),
              total_amount |-> ingredients[idx].total_amount,
              unit |-> get_correct_unit_form(ingredients[idx].total_amount,
                                             ingredients[idx].unit)]],
     recipes |->
         [idx \in DOMAIN recipes |->
             [idx |-> idx, name |-> recipes[idx].name,
              author |-> recipes[idx].author]],
     ingredients_total |-> Len(ingredients),
     recipes_total |-> Len(recipes)]

DownloadRequest(view, user) ==
    [op |-> "download_shopping_cart", view |-> view, user |-> user]

\* api.views.RecipeViewSet.download_shopping_cart
download_shopping_cart(user) ==
    /\ request = NoRequest
    /\ IF ~IsAuthenticated(user)
       THEN response' = Response(HTTP_401_UNAUTHORIZED,
                                 Errors("not_authenticated"))
       ELSE \E ingredients \in order_by_name(annotate(
                    cart_amounts(user, IngredientAmount, ShoppingCart))),
               recipes \in order_by_name(
                    cart_recipes(user, Recipe, ShoppingCart)) :
               response' =
                   Response(HTTP_200_OK,
                       generate_shopping_list_content(ingredients, recipes))
    /\ request' = DownloadRequest("api", user)
    /\ UNCHANGED <<Recipe, IngredientAmount, Favorite, ShoppingCart,
                   Subscription, nextRecipeId, nextAmountId, workers,
                   catalog>>

\* recipes.views.RecipeViewSet.download_shopping_cart: an empty cart is
\* answered 400; otherwise the lookup recipe__shopping_cart__user names a
\* relation the models do not define (ShoppingCart.recipe has
\* related_name 'shoppingcart') and the filter raises FieldError.
recipes_views_download_shopping_cart(user) ==
    /\ request = NoRequest
    /\ response' =
          IF ~IsAuthenticated(user)
          THEN Response(HTTP_401_UNAUTHORIZED, Errors("not_authenticated"))
          ELSE IF \A pk \in DOMAIN Recipe :
                     ~exists(ShoppingCart, [user |-> user, recipe |-> pk])
          THEN Response(HTTP_400_BAD_REQUEST, Errors("cart_is_empty"))
          ELSE Response(HTTP_500_INTERNAL_SERVER_ERROR, Errors("FieldError"))
    /\ request' = DownloadRequest("recipes", user)
    /\ UNCHANGED <<Recipe, IngredientAmount, Favorite, ShoppingCart,
                   Subscription, nextRecipeId, nextAmountId, workers,
                   catalog>>

(***************************************************************************)
(* Favorite / shopping-cart POST served by several workers at once: the    *)
(* statements of _handle_recipe_action, with get_or_create's SELECT, its   *)
(* INSERT and its handling of IntegrityError as separate steps.            *)
(***************************************************************************)
TableOf(op, favs, carts) == IF op = "favorite" THEN favs ELSE carts

Serving(at, op, user, pk, missed, status) ==
    [at |-> at, op |-> op, user |-> user, pk |-> pk, missed |-> missed,
     status |-> status]

\* POST arrives at an idle worker: IsAuthenticated, then
\* recipe = get_object_or_404(Recipe, id=pk)
post(w, op, user, pk) ==
    /\ workers[w] = Idle
    /\ IsAuthenticated(user)
    /\ workers' =
          [workers EXCEPT ![w] =
              IF pk \notin DOMAIN Recipe
              THEN Serving("done", op, user, pk, FALSE, HTTP_404_NOT_FOUND)
              ELSE Serving("get", op, user, pk, FALSE, 0)]
    /\ UNCHANGED <<Recipe, IngredientAmount, Favorite, ShoppingCart,
                   Subscription, nextRecipeId, nextAmountId, request,
                   response, catalog>>

\* get_or_create: self.get(**kwargs); a row found means created = False and
\* the view raises ValidationError
get_or_create_get(w) ==
    /\ workers[w].at = "get"
    /\ LET job == workers[w]
           row == [user |-> job.user, recipe |-> job.pk]
       IN  workers' =
              [workers EXCEPT ![w] =
                  IF exists(TableOf(job.op, Favorite, ShoppingCart), row)
                  THEN Serving("done", job.op, job.user, job.pk, FALSE,
                               HTTP_400_BAD_REQUEST)
                  ELSE Serving("create", job.op, job.user, job.pk, TRUE, 0)]
    /\ UNCHANGED <<Recipe, IngredientAmount, Favorite, ShoppingCart,
                   Subscription, nextRecipeId, nextAmountId, request,
                   response, catalog>>

\* get_or_create: self.create(**params) inside transaction.atomic(); the
\* unique constraint refuses a row another worker has inserted meanwhile
get_or_create_create(w) ==
    /\ workers[w].at = "create"
    /\ LET job == workers[w]
           row == [user |-> job.user, recipe |-> job.pk]
           objects == TableOf(job.op, Favorite, ShoppingCart)
       IN  IF UniqueViolation(objects, row)
           THEN /\ workers' = [workers EXCEPT ![w].at = "IntegrityError"]
                /\ UNCHANGED <<Favorite, ShoppingCart>>
           ELSE /\ workers' = [workers EXCEPT ![w].at = "done",
                                              ![w].status = HTTP_201_CREATED]
                /\ Favorite' = IF job.op = "favorite"
                               THEN insert(Favorite, row) ELSE Favorite
                /\ ShoppingCart' = IF job.op = "favorite"
                                   THEN ShoppingCart
                                   ELSE insert(ShoppingCart, row)
    /\ UNCHANGED <<Recipe, IngredientAmount, Subscription, nextRecipeId,
                   nextAmountId, request, response, catalog>>

integrity_error_unhandled(objects, row) == HTTP_500_INTERNAL_SERVER_ERROR

\* get_or_create: except IntegrityError: the row is looked up again and
\* returned with created = False; the error is raised only if it is not there
integrity_error(objects, row) ==
    IF exists(objects, row)
    THEN HTTP_400_BAD_REQUEST
    ELSE HTTP_500_INTERNAL_SERVER_ERROR

get_or_create_except(w) ==
    /\ workers[w].at = "IntegrityError"
    /\ LET job == workers[w]
           row == [user |-> job.user, recipe |-> job.pk]
       IN  workers' =
              [workers EXCEPT
                  ![w].at = "done",
                  ![w].status =
                      integrity_error(TableOf(job.op, Favorite, ShoppingCart),
                                      row)]
    /\ UNCHANGED <<Recipe, IngredientAmount, Favorite, ShoppingCart,
                   Subscription, nextRecipeId, nextAmountId, request,
                   response, catalog>>

\* the response leaves; the worker is free again
respond(w) ==
    /\ workers[w].at = "done"
    /\ workers' = [workers EXCEPT ![w] = Idle]
    /\ UNCHANGED <<Recipe, IngredientAmount, Favorite, ShoppingCart,
                   Subscription, nextRecipeId, nextAmountId, request,
                   response, catalog>>

(***************************************************************************)
(* Subscribe POST served by several workers at once.  The api view inserts *)
(* through get_or_create; the users view tests exists() and then calls     *)
(* create(), whose IntegrityError nothing catches.                         *)
(***************************************************************************)
\* POST /users/{id}/subscribe/ arrives at an idle worker: IsAuthenticated,
\* author = self.get_object(), then "if user == author"
subscribing(w, view, user, id) ==
    /\ workers[w] = Idle
    /\ IsAuthenticated(user)
    /\ workers' =
          [workers EXCEPT ![w] =
              IF id \notin User
              THEN Serving("done", view, user, id, FALSE, HTTP_404_NOT_FOUND)
              ELSE IF SameUser(user, id)
              THEN Serving("done", view, user, id, FALSE,
                           HTTP_400_BAD_REQUEST)
              ELSE Serving(IF view = "subscribe" THEN "subscribe_get"
                                                 ELSE "subscribe_exists",
                           view, user, id, FALSE, 0)]
    /\ UNCHANGED <<Recipe, IngredientAmount, Favorite, ShoppingCart,
                   Subscription, nextRecipeId, nextAmountId, request,
                   response, catalog>>

\* api view, Subscription.objects.get_or_create: self.get(**kwargs)
subscribe_get(w) ==
    /\ workers[w].at = "subscribe_get"
    /\ LET job == workers[w]
           row == [user |-> job.user, author |-> job.pk]
       IN  workers' =
              [workers EXCEPT ![w] =
                  IF exists(Subscription, row)
                  THEN Serving("done", job.op, job.user, job.pk, FALSE,
                               HTTP_400_BAD_REQUEST)
                  ELSE Serving("subscribe_create", job.op, job.user, job.pk,
                               TRUE, 0)]
    /\ UNCHANGED <<Recipe, IngredientAmount, Favorite, ShoppingCart,
                   Subscription, nextRecipeId, nextAmountId, request,
                   response, catalog>>

\* api view, get_or_create: self.create(**params) under unique_subscription
subscribe_create(w) ==
    /\ workers[w].at = "subscribe_create"
    /\ LET job == workers[w]
           row == [user |-> job.user, author |-> job.pk]
       IN  IF UniqueViolation(Subscription, row)
           THEN /\ workers' =
                      [workers EXCEPT ![w].at = "subscribe_IntegrityError"]
                /\ UNCHANGED Subscription
           ELSE /\ workers' = [workers EXCEPT ![w].at = "done",
                                              ![w].status = HTTP_201_CREATED]
                /\ Subscription' = insert(Subscription, row)
    /\ UNCHANGED <<Recipe, IngredientAmount, Favorite, ShoppingCart,
                   nextRecipeId, nextAmountId, request, response, catalog>>

\* api view, get_or_create: except IntegrityError, then "if not created"
subscribe_except(w) ==
    /\ workers[w].at = "subscribe_IntegrityError"
    /\ LET job == workers[w]
           row == [user |-> job.user, author |-> job.pk]
       IN  workers' =
              [workers EXCEPT
                  ![w].at = "done",
                  ![w].status = integrity_error(Subscription, row)]
    /\ UNCHANGED <<Recipe, IngredientAmount, Favorite, ShoppingCart,
                   Subscription, nextRecipeId, nextAmountId, request,
                   response, catalog>>

\* users view: Subscription.objects.filter(user=user, author=author).exists()
users_views_subscribe_exists(w) ==
    /\ workers[w].at = "subscribe_exists"
    /\ LET job == workers[w]
           row == [user |-> job.user, author |-> job.pk]
       IN  workers' =
              [workers EXCEPT ![w] =
                  IF exists(Subscription, row)
                  THEN Serving("done", job.op, job.user, job.pk, FALSE,
                               HTTP_400_BAD_REQUEST)
                  ELSE Serving("users_create", job.op, job.user, job.pk,
                               TRUE, 0)]
    /\ UNCHANGED <<Recipe, IngredientAmount, Favorite, ShoppingCart,
                   Subscription, nextRecipeId, nextAmountId, request,
                   response, catalog>>

\* users view: Subscription.objects.create(user=user, author=author); the
\* IntegrityError of unique_subscription leaves the view and is answered 500
users_views_subscribe_create(w) ==
    /\ workers[w].at = "users_create"
    /\ LET job == workers[w]
           row == [user |-> job.user, author |-> job.pk]
       IN  IF UniqueViolation(Subscription, row)
           THEN /\ workers' =
                      [workers EXCEPT
                          ![w].at = "done",
                          ![w].status = HTTP_500_INTERNAL_SERVER_ERROR]
                /\ UNCHANGED Subscription
           ELSE /\ workers' = [workers EXCEPT ![w].at = "done",
                                              ![w].status = HTTP_201_CREATED]
                /\ Subscription' = insert(Subscription, row)
    /\ UNCHANGED <<Recipe, IngredientAmount, Favorite, ShoppingCart,
                   nextRecipeId, nextAmountId, request, response, catalog>>

(***************************************************************************)
(* "My subscriptions", backend/api/views.py and the serializer's           *)
(* get_recipes.  The page is taken to hold every followed author.          *)
(***************************************************************************)
\* request.query_params.get('recipes_limit'): absent, or the string sent
LimitParams ==
    {Omitted("")} \cup {Given(l) : l \in {"", "0", "1", "2", "abc"}}

\* int(recipes_limit) of the strings in use; the others raise ValueError
IntOf == ("0" :> 0) @@ ("1" :> 1) @@ ("2" :> 2)

get_recipes_unlimited(author, recipes, recipes_limit) ==
    Newest({r \in DOMAIN recipes : recipes[r].author = author})

\* UserWithRecipesSerializer.get_recipes: obj.recipes.all() in the order of
\* Recipe.Meta.ordering, cut to recipes[:int(recipes_limit)] when the
\* parameter is a non-empty string that int() accepts
get_recipes(author, recipes, recipes_limit) ==
    LET all == Newest({r \in DOMAIN recipes : recipes[r].author = author})
    IN  IF /\ recipes_limit.present
           /\ recipes_limit.value # ""
           /\ recipes_limit.value \in DOMAIN IntOf
        THEN SubSeq(all, 1, IF IntOf[recipes_limit.value] < Len(all)
                            THEN IntOf[recipes_limit.value]
                            ELSE Len(all))
        ELSE all

\* api.views.UserFoodgramViewSet.subscriptions:
\* User.objects.filter(followings__user=user), in the order the database
\* picks, each through UserWithRecipesSerializer
subscriptions(user, recipes_limit) ==
    /\ request = NoRequest
    /\ IF ~IsAuthenticated(user)
       THEN response' = Response(HTTP_401_UNAUTHORIZED,
                                 Errors("not_authenticated"))
       ELSE \E page \in listings({author \in User :
                                     exists(Subscription,
                                            [user |-> user,
                                             author |-> author])}) :
               response' =
                  Response(HTTP_200_OK,
                      [kind |-> "list",
                       results |->
                          [i \in DOMAIN page |->
                              [id |-> page[i],
                               is_subscribed |->
                                   get_is_subscribed(user, page[i],
                                                     Subscription),
                               recipes |->
                                   get_recipes(page[i], Recipe, recipes_limit),
                               recipes_count |->
                                   UserWithRecipesSerializer(
                                       user, page[i], Recipe,
                                       Subscription).recipes_count]]])
    /\ request' = [op |-> "subscriptions", view |-> "api", user |-> user,
                   recipes_limit |-> recipes_limit]
    /\ UNCHANGED <<Recipe, IngredientAmount, Favorite, ShoppingCart,
                   Subscription, nextRecipeId, nextAmountId, workers,
                   catalog>>

(***************************************************************************)
(* Fixture import, backend/recipes/management: load_ingredients and        *)
(* import_tags fill the catalogue tables from a JSON file in one           *)
(* bulk_create(..., ignore_conflicts=True).  The web handlers above read   *)
(* the catalogue as the fixed tables Ingredient and Tag; the commands are  *)
(* followed on tables of their own (catalog).                              *)
(***************************************************************************)
\* the items a JSON file may hold
IngredientItems ==
    {[name |-> "flour", measurement_unit |-> "g"],
     [name |-> " flour ", measurement_unit |-> "g"],
     [name |-> "sugar", measurement_unit |-> "g"]}

TagItems ==
    {[name |-> "lunch", slug |-> "lunch"],
     [name |-> "lunch", slug |-> "dinner"],
     [name |-> "dinner", slug |-> "dinner"]}

\* str.strip()
strip(s) == IF s = " flour " THEN "flour" ELSE s

\* the unique fields of the two models besides the primary key: Ingredient
\* has none, Tag has name and slug (unique=True)
unique_fields(model) == IF model = "Tag" THEN {"name", "slug"} ELSE {}

\* QuerySet.bulk_create(objs, ignore_conflicts=True): each object is inserted
\* under the next primary key unless a row (an earlier object of the same
\* call included) holds its value of a unique field
RECURSIVE bulk_create_ignore_conflicts(_, _, _)
bulk_create_ignore_conflicts(rows, objs, unique) ==
    IF objs = <<>>
    THEN rows
    ELSE LET obj == Head(objs)
             conflict == \E i \in DOMAIN rows :
                            \E f \in unique : rows[i][f] = obj[f]
         IN  bulk_create_ignore_conflicts(
                 IF conflict
                 THEN rows
                 ELSE Append(rows, [id |-> Len(rows) + 1] @@ obj),
                 Tail(objs), unique)

\* manage.py load_ingredients
load_ingredients ==
    /\ Len(catalog.Ingredient) + Len(catalog.ingredients_json)
          <= MaxCatalogRows
    /\ LET data == catalog.ingredients_json
           ingredients_to_create ==
               [i \in DOMAIN data |->
                   [name |-> strip(data[i].name),
                    measurement_unit |-> strip(data[i].measurement_unit)]]
       IN  catalog' =
              [catalog EXCEPT !.Ingredient =
                  bulk_create_ignore_conflicts(
                      @, ingredients_to_create, unique_fields("Ingredient"))]
    /\ UNCHANGED <<Recipe, IngredientAmount, Favorite, ShoppingCart,
                   Subscription, nextRecipeId, nextAmountId, request,
                   response, workers>>

\* manage.py import_tags: BaseImportCommand.handle with model = Tag
import_tags ==
    /\ Len(catalog.Tag) + Len(catalog.tags_json) <= MaxCatalogRows
    /\ LET data == catalog.tags_json
           objects_to_create == [i \in DOMAIN data |-> data[i]]
       IN  catalog' =
              [catalog EXCEPT !.Tag =
                  bulk_create_ignore_conflicts(
                      @, objects_to_create, unique_fields("Tag"))]
    /\ UNCHANGED <<Recipe, IngredientAmount, Favorite, ShoppingCart,
                   Subscription, nextRecipeId, nextAmountId, request,
                   response, workers>>

(***************************************************************************)
(* The client takes the response; the server is idle again.                *)
(***************************************************************************)
Reply ==
    /\ request # NoRequest
    /\ request' = NoRequest
    /\ response' = NoResponse
    /\ UNCHANGED <<Recipe, IngredientAmount, Favorite, ShoppingCart,
                   Subscription, nextRecipeId, nextAmountId, workers,
                   catalog>>

(***************************************************************************)
(* The relation endpoints over a store that already holds two recipes      *)
(* (recipe 1 by user 1, recipe 2 by user 2).                               *)
(***************************************************************************)
InitRelations ==
    /\ Recipe = (1 :> [author |-> 1, name |-> "soup", cooking_time |-> 1,
                       tags |-> {1}]) @@
                (2 :> [author |-> 2, name |-> "bread", cooking_time |-> 2,
                       tags |-> {1, 2}])
    /\ IngredientAmount =
          <<[id |-> 1, recipe |-> 1, ingredient |-> 1, amount |-> 1],
            [id |-> 2, recipe |-> 2, ingredient |-> 2, amount |-> 1],
            [id |-> 3, recipe |-> 2, ingredient |-> 1, amount |-> 2]>>
    /\ Favorite = EmptyBag
    /\ ShoppingCart = EmptyBag
    /\ Subscription = EmptyBag
    /\ nextRecipeId = 3
    /\ nextAmountId = 4
    /\ request = NoRequest
    /\ response = NoResponse
    /\ workers = NoWorkers
    /\ catalog = NoCatalog

NextRelations ==
    \/ \E user \in Requesters, method \in Methods, pk \in RecipePks :
          favorite(user, method, pk)
    \/ \E user \in Requesters, method \in Methods, pk \in RecipePks :
          shopping_cart(user, method, pk)
    \/ \E user \in Requesters, method \in Methods, pk \in RecipePks :
          recipes_views_favorite(user, method, pk)
    \/ \E user \in Requesters, method \in Methods, pk \in RecipePks :
          recipes_views_shopping_cart(user, method, pk)
    \/ \E user \in Requesters, method \in Methods, id \in UserIds :
          subscribe(user, method, id)
    \/ \E user \in Requesters, method \in Methods, id \in UserIds :
          users_views_subscribe(user, method, id)
    \/ Reply

SpecRelations == InitRelations /\ [][NextRelations]_vars

(***************************************************************************)
(* The recipe write endpoints from an empty store.                         *)
(***************************************************************************)
InitRecipes ==
    /\ Recipe = <<>>
    /\ IngredientAmount = <<>>
    /\ Favorite = EmptyBag
    /\ ShoppingCart = EmptyBag
    /\ Subscription = EmptyBag
    /\ nextRecipeId = 1
    /\ nextAmountId = 1
    /\ request = NoRequest
    /\ response = NoResponse
    /\ workers = NoWorkers
    /\ catalog = NoCatalog

NextRecipes ==
    \/ /\ request = NoRequest
       /\ \E user \in Requesters, data \in Payloads : create(user, data)
    \/ /\ request = NoRequest
       /\ \E user \in Requesters, pk \in RecipePks, data \in Payloads :
             update(user, pk, data)
    \/ /\ request = NoRequest
       /\ \E user \in Requesters, pk \in RecipePks, data \in Payloads :
             partial_update(user, pk, data)
    \/ /\ request = NoRequest
       /\ \E user \in Requesters, data \in Payloads :
             recipes_views_create(user, data)
    \/ /\ request = NoRequest
       /\ \E user \in Requesters, pk \in RecipePks, data \in Payloads :
             recipes_views_update(user, pk, data)
    \/ /\ request = NoRequest
       /\ \E user \in Requesters, pk \in RecipePks, data \in Payloads :
             recipes_views_partial_update(user, pk, data)
    \/ \E user \in Requesters, pk \in RecipePks : retrieve(user, pk)
    \/ Reply

SpecRecipes == InitRecipes /\ [][NextRecipes]_vars

(***************************************************************************)
(* Updates, reads and deletes over a store holding one recipe of each      *)
(* user, one in user 2's favorites and cart.                               *)
(***************************************************************************)
InitOwnership ==
    /\ Recipe = (1 :> [author |-> 1, name |-> "soup", cooking_time |-> 1,
                       tags |-> {1}]) @@
                (2 :> [author |-> 2, name |-> "soup", cooking_time |-> 1,
                       tags |-> {2}])
    /\ IngredientAmount =
          <<[id |-> 1, recipe |-> 1, ingredient |-> 1, amount |-> 2],
            [id |-> 2, recipe |-> 2, ingredient |-> 2, amount |-> 2]>>
    /\ Favorite = SetToBag({[user |-> 2, recipe |-> 1]})
    /\ ShoppingCart = SetToBag({[user |-> 2, recipe |-> 1],
                                [user |-> 2, recipe |-> 2]})
    /\ Subscription = EmptyBag
    /\ nextRecipeId = 3
    /\ nextAmountId = 3
    /\ request = NoRequest
    /\ response = NoResponse
    /\ workers = NoWorkers
    /\ catalog = NoCatalog

NextOwnership ==
    \/ /\ request = NoRequest
       /\ \E user \in Requesters, pk \in RecipePks,
             data \in WellFormedPayloads :
             update(user, pk, data)
    \/ /\ request = NoRequest
       /\ \E user \in Requesters, pk \in RecipePks,
             data \in WellFormedPayloads :
             partial_update(user, pk, data)
    \/ /\ request = NoRequest
       /\ \E user \in Requesters, pk \in RecipePks,
             data \in WellFormedPayloads :
             recipes_views_partial_update(user, pk, data)
    \/ \E user \in Requesters, pk \in RecipePks : destroy(user, pk)
    \/ \E user \in Requesters, pk \in RecipePks : retrieve(user, pk)
    \/ \E user \in Requesters : list(user)
    \/ Reply

SpecOwnership == InitOwnership /\ [][NextOwnership]_vars

(***************************************************************************)
(* The shopping cart and its download over three recipes: "soup" of user   *)
(* 1 and two recipes of user 2 that are both named "bread".                *)
(***************************************************************************)
InitCart ==
    /\ Recipe = (1 :> [author |-> 1, name |-> "soup", cooking_time |-> 1,
                       tags |-> {1}]) @@
                (2 :> [author |-> 2, name |-> "bread", cooking_time |-> 1,
                       tags |-> {2}]) @@
                (3 :> [author |-> 2, name |-> "bread", cooking_time |-> 2,
                       tags |-> {}])
    /\ IngredientAmount =
          <<[id |-> 1, recipe |-> 1, ingredient |-> 1, amount |-> 2],
            [id |-> 2, recipe |-> 1, ingredient |-> 2, amount |-> 1],
            [id |-> 3, recipe |-> 2, ingredient |-> 1, amount |-> 1],
            [id |-> 4, recipe |-> 2, ingredient |-> 3, amount |-> 1],
            [id |-> 5, recipe |-> 3, ingredient |-> 4, amount |-> 2]>>
    /\ Favorite = EmptyBag
    /\ ShoppingCart = EmptyBag
    /\ Subscription = EmptyBag
    /\ nextRecipeId = 4
    /\ nextAmountId = 6
    /\ request = NoRequest
    /\ response = NoResponse
    /\ workers = NoWorkers
    /\ catalog = NoCatalog

NextCart ==
    \/ \E user \in Requesters, method \in Methods, pk \in RecipePks :
          shopping_cart(user, method, pk)
    \/ \E user \in Requesters : download_shopping_cart(user)
    \/ \E user \in Requesters : recipes_views_download_shopping_cart(user)
    \/ Reply

SpecCart == InitCart /\ [][NextCart]_vars

(***************************************************************************)
(* Concurrent favorite / shopping-cart POSTs over the two recipes of       *)
(* InitRelations.                                                          *)
(***************************************************************************)
NextConcurrent ==
    \/ \E w \in Worker, op \in {"favorite", "shopping_cart"},
          user \in User, pk \in RecipePks : post(w, op, user, pk)
    \/ \E w \in Worker : get_or_create_get(w)
    \/ \E w \in Worker : get_or_create_create(w)
    \/ \E w \in Worker : get_or_create_except(w)
    \/ \E w \in Worker : respond(w)

SpecConcurrent == InitRelations /\ [][NextConcurrent]_vars

(***************************************************************************)
(* Concurrent subscribe POSTs of the two users, through either view.       *)
(***************************************************************************)
NextSubscribing ==
    \/ \E w \in Worker, view \in {"subscribe", "users_views_subscribe"},
          user \in User, id \in UserIds : subscribing(w, view, user, id)
    \/ \E w \in Worker : subscribe_get(w)
    \/ \E w \in Worker : subscribe_create(w)
    \/ \E w \in Worker : subscribe_except(w)
    \/ \E w \in Worker : users_views_subscribe_exists(w)
    \/ \E w \in Worker : users_views_subscribe_create(w)
    \/ \E w \in Worker : respond(w)

SpecSubscribing == InitRelations /\ [][NextSubscribing]_vars

(***************************************************************************)
(* Recipe creation from an empty store with amounts up to and beyond the   *)
(* range of the amount column.                                             *)
(***************************************************************************)
NextLarge ==
    \/ /\ request = NoRequest
       /\ \E user \in Requesters, data \in LargePayloads : create(user, data)
    \/ /\ request = NoRequest
       /\ \E user \in Requesters, data \in LargePayloads :
             recipes_views_create(user, data)
    \/ \E user \in Requesters, pk \in RecipePks : retrieve(user, pk)
    \/ Reply

SpecLarge == InitRecipes /\ [][NextLarge]_vars

(***************************************************************************)
(* Recipe writes, relation toggles and subscriptions together, from an     *)
(* empty store, with the payloads of SmallPayloads.                        *)
(***************************************************************************)
NextErrors ==
    \/ /\ request = NoRequest
       /\ \E user \in Requesters, data \in SmallPayloads : create(user, data)
    \/ /\ request = NoRequest
       /\ \E user \in Requesters, pk \in RecipePks, data \in SmallPayloads :
             update(user, pk, data)
    \/ /\ request = NoRequest
       /\ \E user \in Requesters, pk \in RecipePks, data \in SmallPayloads :
             partial_update(user, pk, data)
    \/ \E user \in Requesters, method \in Methods, pk \in RecipePks :
          favorite(user, method, pk)
    \/ \E user \in Requesters, method \in Methods, pk \in RecipePks :
          shopping_cart(user, method, pk)
    \/ \E user \in Requesters, method \in Methods, id \in UserIds :
          subscribe(user, method, id)
    \/ Reply

SpecErrors == InitRecipes /\ [][NextErrors]_vars

(***************************************************************************)
(* The import commands, run any number of times on one pair of files over  *)
(* tables that start empty.                                                *)
(***************************************************************************)
InitImport ==
    /\ Recipe = <<>>
    /\ IngredientAmount = <<>>
    /\ Favorite = EmptyBag
    /\ ShoppingCart = EmptyBag
    /\ Subscription = EmptyBag
    /\ nextRecipeId = 1
    /\ nextAmountId = 1
    /\ request = NoRequest
    /\ response = NoResponse
    /\ workers = NoWorkers
    /\ \E ingredients \in SeqsUpTo(IngredientItems, MaxLen),
          tags \in SeqsUpTo(TagItems, MaxLen) :
          catalog = [Ingredient |-> <<>>, Tag |-> <<>>,
                     ingredients_json |-> ingredients, tags_json |-> tags]

NextImport ==
    \/ load_ingredients
    \/ import_tags

SpecImport == InitImport /\ [][NextImport]_vars

(***************************************************************************)
(* Deletes among favorites, carts, downloads and short links, over the     *)
(* store of InitOwnership.                                                 *)
(***************************************************************************)
NextDeletion ==
    \/ \E user \in Requesters, pk \in RecipePks : destroy(user, pk)
    \/ \E user \in Requesters, method \in Methods, pk \in RecipePks :
          favorite(user, method, pk)
    \/ \E user \in Requesters, method \in Methods, pk \in RecipePks :
          shopping_cart(user, method, pk)
    \/ \E user \in Requesters : download_shopping_cart(user)
    \/ \E user \in Requesters, pk \in RecipePks : get_link(user, pk)
    \/ \E user \in Requesters, pk \in RecipePks :
          recipes_views_get_link(user, pk)
    \/ Reply

SpecDeletion == InitOwnership /\ [][NextDeletion]_vars

(***************************************************************************)
(* Subscriptions and their listing, with recipe deletes, over the three    *)
(* recipes of InitCart (one of user 1, two of user 2).                     *)
(***************************************************************************)
NextSubscriptions ==
    \/ \E user \in Requesters, method \in Methods, id \in UserIds :
          subscribe(user, method, id)
    \/ \E user \in Requesters, recipes_limit \in LimitParams :
          subscriptions(user, recipes_limit)
    \/ \E user \in Requesters, pk \in RecipePks : destroy(user, pk)
    \/ Reply

SpecSubscriptions == InitCart /\ [][NextSubscriptions]_vars

(***************************************************************************)
(* Recipe writes whose payloads may carry an author field, from an empty   *)
(* store.                                                                  *)
(***************************************************************************)
NextAuthors ==
    \/ /\ request = NoRequest
       /\ \E user \in Requesters, data \in AuthoredPayloads :
             create(user, data)
    \/ /\ request = NoRequest
       /\ \E user \in Requesters, pk \in RecipePks,
             data \in AuthoredPayloads : update(user, pk, data)
    \/ /\ request = NoRequest
       /\ \E user \in Requesters, pk \in RecipePks,
             data \in AuthoredPayloads : partial_update(user, pk, data)
    \/ /\ request = NoRequest
       /\ \E user \in Requesters, data \in AuthoredPayloads :
             recipes_views_create(user, data)
    \/ /\ request = NoRequest
       /\ \E user \in Requesters, pk \in RecipePks,
             data \in AuthoredPayloads : recipes_views_update(user, pk, data)
    \/ /\ request = NoRequest
       /\ \E user \in Requesters, pk \in RecipePks,
             data \in AuthoredPayloads :
             recipes_views_partial_update(user, pk, data)
    \/ Reply

SpecAuthors == InitRecipes /\ [][NextAuthors]_vars

(***************************************************************************)
(* The shopping list of a cart holding one recipe with one ingredient row, *)
(* for every amount up to MaxAmount and a unit of each kind.               *)
(***************************************************************************)
InitUnits ==
    /\ Recipe = (1 :> [author |-> 1, name |-> "soup", cooking_time |-> 1,
                       tags |-> {1}])
    /\ \E ingredient \in {1, 4, 5}, amount \in 1..MaxAmount :
          IngredientAmount = <<[id |-> 1, recipe |-> 1,
                                ingredient |-> ingredient,
                                amount |-> amount]>>
    /\ Favorite = EmptyBag
    /\ ShoppingCart = SetToBag({[user |-> 1, recipe |-> 1]})
    /\ Subscription = EmptyBag
    /\ nextRecipeId = 2
    /\ nextAmountId = 2
    /\ request = NoRequest
    /\ response = NoResponse
    /\ workers = NoWorkers
    /\ catalog = NoCatalog

NextUnits ==
    \/ \E user \in Requesters : download_shopping_cart(user)
    \/ Reply

SpecUnits == InitUnits /\ [][NextUnits]_vars

(***************************************************************************)
(* Properties of the relation endpoints (SpecRelations).                   *)
(***************************************************************************)
RelationOf(op, favs, carts) == IF op = "favorite" THEN favs ELSE carts

Rows(before, after) == BagToSet(before) \cup BagToSet(after)

\* after is before with one copy of row added and nothing else changed
Added(before, after, row) ==
    \A x \in Rows(before, after) \cup {row} :
        Copies(after, x) = Copies(before, x) + (IF x = row THEN 1 ELSE 0)

\* after is before without row and nothing else changed
Removed(before, after, row) ==
    \A x \in Rows(before, after) \cup {row} :
        Copies(after, x) = (IF x = row THEN 0 ELSE Copies(before, x))

\* C1: in every reachable state there is at most one Favorite row and at most
\* one ShoppingCart row for each (user, recipe) pair.
C1_OneRowPerUserRecipe ==
    \A user \in Requesters, pk \in RecipePks :
        /\ Copies(Favorite, [user |-> user, recipe |-> pk]) <= 1
        /\ Copies(ShoppingCart, [user |-> user, recipe |-> pk]) <= 1

\* a repeated shopping_cart POST was answered while the pair is also a favorite
C1_Witness ==
    /\ request.op = "shopping_cart"
    /\ request.method = "POST"
    /\ response.status = HTTP_400_BAD_REQUEST
    /\ Copies(ShoppingCart, [user |-> request.user, recipe |-> request.pk]) = 1
    /\ Copies(Favorite, [user |-> request.user, recipe |-> request.pk]) = 1

\* C2: a favorite / shopping_cart POST by a user on an existing recipe, when the
\* relation does not exist, creates exactly that relation and answers 201 with
\* the recipe's read representation; when the relation exists it answers 400
\* with an error body and leaves both relations unchanged.
C2_PostCreatesOnceThenFails ==
    [][(/\ request = NoRequest
        /\ request'.op \in {"favorite", "shopping_cart"}
        /\ request'.method = "POST"
        /\ request'.user \in User
        /\ request'.pk \in DOMAIN Recipe)
       => LET op == request'.op
              row == [user |-> request'.user, recipe |-> request'.pk]
              before == RelationOf(op, Favorite, ShoppingCart)
              after == RelationOf(op, Favorite', ShoppingCart')
              other == RelationOf(op, ShoppingCart, Favorite)
              other_after == RelationOf(op, ShoppingCart', Favorite')
          IN  IF ~BagIn(row, before)
              THEN /\ Added(before, after, row)
                   /\ other_after = other
                   /\ response'.status = HTTP_201_CREATED
                   /\ response'.body =
                         RecipeSerializer(request'.user, request'.pk, Recipe',
                             IngredientAmount', Favorite', ShoppingCart',
                             Subscription')
                   /\ response'.body.id = request'.pk
                   /\ response'.body.cooking_time
                        = Recipe[request'.pk].cooking_time
                   /\ (op = "favorite" => response'.body.is_favorited)
                   /\ (op = "shopping_cart"
                        => response'.body.is_in_shopping_cart)
              ELSE /\ response'.status = HTTP_400_BAD_REQUEST
                   /\ response'.body.kind = "errors"
                   /\ Favorite' = Favorite
                   /\ ShoppingCart' = ShoppingCart]_vars

\* the second favorite POST of a pair was answered 400, the relation still there
C2_Witness ==
    /\ request.op = "favorite"
    /\ request.view = "api"
    /\ request.method = "POST"
    /\ response.status = HTTP_400_BAD_REQUEST
    /\ response.body.kind = "errors"
    /\ BagIn([user |-> request.user, recipe |-> request.pk], Favorite)

\* C3: a favorite / shopping_cart DELETE by a user for a pair whose relation
\* does not exist answers 404 and changes no relation; when the relation exists
\* it removes exactly that relation and answers 204 with an empty body.
C3_DeleteRemovesOrNotFound ==
    [][(/\ request = NoRequest
        /\ request'.op \in {"favorite", "shopping_cart"}
        /\ request'.method = "DELETE"
        /\ request'.user \in User)
       => LET op == request'.op
              row == [user |-> request'.user, recipe |-> request'.pk]
              before == RelationOf(op, Favorite, ShoppingCart)
              after == RelationOf(op, Favorite', ShoppingCart')
              other == RelationOf(op, ShoppingCart, Favorite)
              other_after == RelationOf(op, ShoppingCart', Favorite')
          IN  IF ~BagIn(row, before)
              THEN /\ response'.status = HTTP_404_NOT_FOUND
                   /\ Favorite' = Favorite
                   /\ ShoppingCart' = ShoppingCart
              ELSE /\ Removed(before, after, row)
                   /\ other_after = other
                   /\ response'.status = HTTP_204_NO_CONTENT
                   /\ response'.body = Empty]_vars

\* a DELETE removed one cart entry of a user and left another one in the cart
C3_Witness ==
    /\ request.op = "shopping_cart"
    /\ request.method = "DELETE"
    /\ response.status = HTTP_204_NO_CONTENT
    /\ ~BagIn([user |-> request.user, recipe |-> request.pk], ShoppingCart)
    /\ \E pk \in DOMAIN Recipe :
          BagIn([user |-> request.user, recipe |-> pk], ShoppingCart)

\* C4: in every reachable state the Subscription table holds at most one row
\* per (follower, author) pair and no row whose follower is its author.
C4_SubscriptionUniqueNoSelf ==
    \A row \in BagToSet(Subscription) :
        /\ Copies(Subscription, row) <= 1
        /\ row.user # row.author

\* both users follow each other and a further subscribe POST was refused
C4_Witness ==
    /\ request.op = "subscribe"
    /\ request.method = "POST"
    /\ response.status = HTTP_400_BAD_REQUEST
    /\ BagToSet(Subscription)
         = {[user |-> 1, author |-> 2], [user |-> 2, author |-> 1]}

\* C5: a subscribe POST by a user targeting that same user answers 400 and
\* leaves the Subscription table as it was, whatever it holds.
C5_SelfSubscribeFails ==
    [][(/\ request = NoRequest
        /\ request'.op = "subscribe"
        /\ request'.method = "POST"
        /\ request'.user \in User
        /\ request'.id = request'.user)
       => /\ response'.status = HTTP_400_BAD_REQUEST
          /\ Subscription' = Subscription]_vars

\* a self-subscription was refused while other subscriptions exist
C5_Witness ==
    /\ request.op = "subscribe"
    /\ request.method = "POST"
    /\ request.user \in User
    /\ request.id = request.user
    /\ response.status = HTTP_400_BAD_REQUEST
    /\ Subscription # EmptyBag

\* C6: a subscribe POST by follower u to another user a answers 400 and leaves
\* the table unchanged when (u, a) exists, and otherwise adds exactly that row
\* and answers 201.
C6_SubscribePost ==
    [][(/\ request = NoRequest
        /\ request'.op = "subscribe"
        /\ request'.method = "POST"
        /\ request'.user \in User
        /\ request'.id \in User
        /\ request'.id # request'.user)
       => LET row == [user |-> request'.user, author |-> request'.id]
          IN  IF BagIn(row, Subscription)
              THEN /\ response'.status = HTTP_400_BAD_REQUEST
                   /\ response'.body.kind = "errors"
                   /\ Subscription' = Subscription
              ELSE /\ Added(Subscription, Subscription', row)
                   /\ response'.status = HTTP_201_CREATED]_vars

\* a repeated subscribe POST to another user was refused
C6_Witness ==
    /\ request.op = "subscribe"
    /\ request.method = "POST"
    /\ request.user \in User
    /\ request.id \in User \ {request.user}
    /\ response.status = HTTP_400_BAD_REQUEST
    /\ BagIn([user |-> request.user, author |-> request.id], Subscription)

\* C7: a subscribe DELETE by follower u for author id a answers 404 and changes
\* nothing when no (u, a) subscription exists, and otherwise removes exactly
\* that row and answers 204.
C7_SubscribeDelete ==
    [][(/\ request = NoRequest
        /\ request'.op = "subscribe"
        /\ request'.method = "DELETE"
        /\ request'.user \in User)
       => LET row == [user |-> request'.user, author |-> request'.id]
          IN  IF ~BagIn(row, Subscription)
              THEN /\ response'.status = HTTP_404_NOT_FOUND
                   /\ Subscription' = Subscription
              ELSE /\ Removed(Subscription, Subscription', row)
                   /\ response'.status = HTTP_204_NO_CONTENT]_vars

(***************************************************************************)
(* Properties of the recipe write endpoints (SpecRecipes).                 *)
(***************************************************************************)
WriteOps == {"create", "update", "partial_update"}

\* the request passes authentication, the recipe lookup and the author check,
\* so that its payload is what decides the outcome
Admitted(req) ==
    /\ req.op \in WriteOps
    /\ req.user \in User
    /\ req.op # "create"
         => (req.pk \in DOMAIN Recipe /\ Recipe[req.pk].author = req.user)

HasRepeat(ids) == \E i, j \in DOMAIN ids : i # j /\ ids[i] = ids[j]

StoreUnchanged ==
    /\ Recipe' = Recipe
    /\ IngredientAmount' = IngredientAmount
    /\ Favorite' = Favorite
    /\ ShoppingCart' = ShoppingCart
    /\ Subscription' = Subscription

RowsOf(rows, pk) == SelectSeq(rows, LAMBDA row : row.recipe = pk)

\* the (ingredient, amount) pairs of stored rows, in row order
PairsOf(rows) ==
    [i \in DOMAIN rows |->
        [id |-> rows[i].ingredient, amount |-> rows[i].amount]]

\* serializer.save() returned: the view answered 200, or the api view failed
\* only afterwards, rendering its response
Saved(resp) ==
    \/ resp.status = HTTP_200_OK
    \/ resp.body = Errors("AttributeError")

\* C11: an update that is carried out and supplies ingredients and tags leaves
\* the recipe with exactly the submitted (ingredient, amount) pairs and exactly
\* the submitted tag set; none of the recipe's previous rows remains; the rows
\* and tags of every other recipe are unchanged.
C11_UpdateReplacesIngredientsAndTags ==
    [][(/\ request = NoRequest
        /\ request'.op \in {"update", "partial_update"}
        /\ request'.data.ingredients.present
        /\ request'.data.tags.present
        /\ Saved(response'))
       => LET pk == request'.pk
          IN  /\ PairsOf(RowsOf(IngredientAmount', pk))
                   = request'.data.ingredients.value
              /\ Recipe'[pk].tags = Range(request'.data.tags.value)
              /\ \A i \in DOMAIN IngredientAmount :
                    IngredientAmount[i].recipe = pk
                    => \A j \in DOMAIN IngredientAmount' :
                          IngredientAmount'[j].id # IngredientAmount[i].id
              /\ \A r \in DOMAIN Recipe \ {pk} :
                    /\ RowsOf(IngredientAmount', r) = RowsOf(IngredientAmount, r)
                    /\ Recipe'[r] = Recipe[r]]_vars

\* a PATCH replaced the one row of a recipe by the two submitted pairs while
\* the other recipe keeps its row
C11_Witness ==
    /\ request.op = "partial_update"
    /\ response.status = HTTP_200_OK
    /\ request.data.ingredients.present
    /\ request.data.tags.present
    /\ Len(request.data.ingredients.value) = 2
    /\ PairsOf(RowsOf(IngredientAmount, request.pk))
         = request.data.ingredients.value
    /\ \E r \in DOMAIN Recipe \ {request.pk} :
          RowsOf(IngredientAmount, r) # <<>>

\* C12: a PATCH by the recipe's author that omits ingredients leaves the
\* recipe's IngredientAmount rows as they were, and one that omits tags leaves
\* the recipe's tag set as it was.
C12_PartialUpdateKeepsOmitted ==
    [][(/\ request = NoRequest
        /\ request'.op = "partial_update"
        /\ Admitted(request'))
       => LET pk == request'.pk
          IN  /\ ~request'.data.ingredients.present
                   => RowsOf(IngredientAmount', pk)
                        = RowsOf(IngredientAmount, pk)
              /\ ~request'.data.tags.present
                   => Recipe'[pk].tags = Recipe[pk].tags]_vars

\* C13: an update or delete of an existing recipe by anyone but its author is
\* denied (401 for an anonymous client, 403 otherwise) and leaves the store
\* unchanged; the author's delete is carried out; retrieve and list answer 200
\* to every client, retrieve with the recipe's representation.
C13_OnlyAuthorWrites ==
    [][(request = NoRequest /\ request'.op # "none")
       => LET op == request'.op
              user == request'.user
              pk == request'.pk
          IN  /\ (/\ op \in {"update", "partial_update", "destroy"}
                  /\ pk \in DOMAIN Recipe
                  /\ Recipe[pk].author # user)
                 => (/\ response'.status =
                          (IF user = Anonymous THEN HTTP_401_UNAUTHORIZED
                           ELSE HTTP_403_FORBIDDEN)
                     /\ StoreUnchanged)
              /\ (/\ op = "destroy"
                  /\ pk \in DOMAIN Recipe
                  /\ Recipe[pk].author = user)
                 => (/\ response'.status = HTTP_204_NO_CONTENT
                     /\ pk \notin DOMAIN Recipe')
              /\ (op = "retrieve" /\ pk \in DOMAIN Recipe)
                 => (/\ response' =
                          Response(HTTP_200_OK,
                              RecipeSerializer(user, pk, Recipe,
                                  IngredientAmount, Favorite, ShoppingCart,
                                  Subscription))
                     /\ StoreUnchanged)
              /\ op = "list"
                 => (/\ response'.status = HTTP_200_OK
                     /\ Len(response'.body.results)
                          = Cardinality(DOMAIN Recipe)
                     /\ StoreUnchanged)]_vars

\* a registered user who is not the author was refused the delete of a recipe
\* that has rows, tags and a cart entry
C13_Witness ==
    /\ request.op = "destroy"
    /\ request.user \in User
    /\ response.status = HTTP_403_FORBIDDEN
    /\ request.pk \in DOMAIN Recipe
    /\ Recipe[request.pk].author # request.user
    /\ RowsOf(IngredientAmount, request.pk) # <<>>
    /\ Recipe[request.pk].tags # {}
    /\ BagIn([user |-> request.user, recipe |-> request.pk], ShoppingCart)

\* C18: no IngredientAmount row ever names a recipe that does not exist; a
\* delete that is carried out removes the recipe and every one of its rows and
\* leaves the rows of the other recipes, and those recipes, as they were.
C18_DeleteCascadesToAmounts ==
    /\ [](\A i \in DOMAIN IngredientAmount :
            IngredientAmount[i].recipe \in DOMAIN Recipe)
    /\ [][(/\ request = NoRequest
           /\ request'.op = "destroy"
           /\ response'.status = HTTP_204_NO_CONTENT)
          => LET pk == request'.pk
             IN  /\ DOMAIN Recipe' = DOMAIN Recipe \ {pk}
                 /\ RowsOf(IngredientAmount', pk) = <<>>
                 /\ \A r \in DOMAIN Recipe' :
                       /\ RowsOf(IngredientAmount', r)
                            = RowsOf(IngredientAmount, r)
                       /\ Recipe'[r] = Recipe[r]]_vars

\* a recipe that had rows was deleted; the other recipe and its rows remain
C18_Witness ==
    /\ request.op = "destroy"
    /\ response.status = HTTP_204_NO_CONTENT
    /\ request.pk \notin DOMAIN Recipe
    /\ Recipe # <<>>
    /\ IngredientAmount # <<>>
    /\ \A i \in DOMAIN IngredientAmount :
          IngredientAmount[i].recipe \in DOMAIN Recipe

(***************************************************************************)
(* Properties of the shopping list (SpecCart).                             *)
(***************************************************************************)
CartOf(user) ==
    {pk \in DOMAIN Recipe : BagIn([user |-> user, recipe |-> pk], ShoppingCart)}

GroupOf(row) ==
    [name |-> Ingredient[row.ingredient].name,
     unit |-> Ingredient[row.ingredient].measurement_unit]

\* the amounts of the IngredientAmount rows at the given positions, added up
RECURSIVE TotalOf(_)
TotalOf(positions) ==
    IF positions = {} THEN 0
    ELSE LET i == CHOOSE x \in positions : TRUE
         IN  IngredientAmount[i].amount + TotalOf(positions \ {i})

Downloaded ==
    /\ request = NoRequest
    /\ request'.op = "download_shopping_cart"
    /\ response'.status = HTTP_200_OK

\* C14: a downloaded shopping list has exactly one ingredient line for each
\* distinct (name, unit) among the rows of the recipes in the user's cart, and
\* the line's amount is the sum of the amounts of those rows, each cart recipe
\* counted once.
C14_ShoppingListAggregates ==
    [][Downloaded
       => LET cart == CartOf(request'.user)
              inCart == {i \in DOMAIN IngredientAmount :
                            IngredientAmount[i].recipe \in cart}
              groups == {GroupOf(IngredientAmount[i]) : i \in inCart}
              lines == response'.body.ingredients
          IN  /\ Len(lines) = Cardinality(groups)
              /\ response'.body.ingredients_total = Cardinality(groups)
              /\ \A g \in groups :
                    LET total == TotalOf({i \in inCart :
                                    GroupOf(IngredientAmount[i]) = g})
                    IN  \E k \in DOMAIN lines :
                           /\ lines[k].name = capitalize(g.name)
                           /\ lines[k].total_amount = total
                           /\ lines[k].unit
                                = get_correct_unit_form(total, g.unit)]_vars

\* all three recipes are in the cart: flour in grams is listed once with
\* 2 + 1 + 1 = 4, next to flour in glasses and sugar
C14_Witness ==
    /\ request.op = "download_shopping_cart"
    /\ response.status = HTTP_200_OK
    /\ CartOf(request.user) = {1, 2, 3}
    /\ Len(response.body.ingredients) = 3
    /\ \E k \in DOMAIN response.body.ingredients :
          /\ response.body.ingredients[k].name = "Flour"
          /\ response.body.ingredients[k].unit = "gr."
          /\ response.body.ingredients[k].total_amount = 4

Enumerated(lines) == \A i \in DOMAIN lines : lines[i].idx = i

Ascending(lines) ==
    \A i, j \in DOMAIN lines :
        i < j => Rank(lines[i].name) <= Rank(lines[j].name)

\* C15: in a downloaded shopping list the ingredient lines are in alphabetical
\* order of ingredient name, the recipe lines in alphabetical order of recipe
\* name, and each section is numbered 1, 2, 3, ...
C15_ShoppingListOrdered ==
    [][Downloaded
       => /\ Enumerated(response'.body.ingredients)
          /\ Enumerated(response'.body.recipes)
          /\ Ascending(response'.body.ingredients)
          /\ Ascending(response'.body.recipes)]_vars

\* a list with "bread" (recipe 2) before "soup" (recipe 1) and sugar last
C15_Witness ==
    /\ request.op = "download_shopping_cart"
    /\ response.status = HTTP_200_OK
    /\ CartOf(request.user) = {1, 2}
    /\ Len(response.body.recipes) = 2
    /\ response.body.recipes[1].name = "bread"
    /\ response.body.recipes[2].name = "soup"
    /\ response.body.ingredients[2].name = "Sugar"

PairOf(line) == [name |-> line.name, author |-> line.author]

CartPairs(user) ==
    {[name |-> Recipe[pk].name, author |-> Recipe[pk].author] :
     pk \in CartOf(user)}

\* C16 as stated: the recipe section lists each distinct (recipe name, author)
\* pair of the user's cart exactly once and no recipe outside the cart.
C16_DistinctNameAuthorPairs ==
    [][Downloaded
       => LET lines == response'.body.recipes
              pairs == CartPairs(request'.user)
          IN  /\ \A k \in DOMAIN lines : PairOf(lines[k]) \in pairs
              /\ \A p \in pairs :
                    Cardinality({k \in DOMAIN lines : PairOf(lines[k]) = p})
                      = 1]_vars

\* C16: the recipe section has one line for each distinct recipe in the user's
\* cart, carrying that recipe's name and author, and no line for a recipe
\* outside the cart; two cart recipes of one name and author give two lines.
C16_OneLinePerCartRecipe ==
    [][Downloaded
       => LET lines == response'.body.recipes
              cart == CartOf(request'.user)
              pairs == CartPairs(request'.user)
          IN  /\ Len(lines) = Cardinality(cart)
              /\ response'.body.recipes_total = Cardinality(cart)
              /\ \A k \in DOMAIN lines : PairOf(lines[k]) \in pairs
              /\ \A p \in pairs :
                    Cardinality({k \in DOMAIN lines : PairOf(lines[k]) = p})
                      = Cardinality({pk \in cart :
                            /\ Recipe[pk].name = p.name
                            /\ Recipe[pk].author = p.author})]_vars

\* the user's cart holds the two "bread" recipes of user 2 and the list names
\* both, while "soup" is in the other user's cart only
C16_Witness ==
    /\ request.op = "download_shopping_cart"
    /\ response.status = HTTP_200_OK
    /\ CartOf(request.user) = {2, 3}
    /\ Len(response.body.recipes) = 2
    /\ \E u \in User \ {request.user} : 1 \in CartOf(u)

\* C17: a download_shopping_cart request of a user whose cart is empty is
\* answered 400 with a "cart is empty" error and no file.
C17_EmptyCartRefused ==
    [][(/\ request = NoRequest
        /\ request'.op = "download_shopping_cart"
        /\ request'.user \in User
        /\ CartOf(request'.user) = {})
       => (/\ response'.status = HTTP_400_BAD_REQUEST
           /\ response'.body = Errors("cart_is_empty"))]_vars

(***************************************************************************)
(* Round trip of a recipe (SpecRecipes).                                   *)
(***************************************************************************)
\* C19: a create that is carried out, with distinct ingredient ids, amounts
\* >= 1 and distinct tags, followed by a read of the recipe, yields the
\* submitted (ingredient id, amount) pairs in the submitted order and the
\* submitted tags in catalogue order; a read answers with the recipe's read
\* representation of the store.
C19_RoundTrip ==
    [][(request = NoRequest /\ request'.op \in {"create", "retrieve"})
       => /\ (request'.op = "create" /\ nextRecipeId' = nextRecipeId + 1)
             => LET read == RecipeSerializer(request'.user, nextRecipeId,
                                Recipe', IngredientAmount', Favorite',
                                ShoppingCart', Subscription')
                IN  /\ [i \in DOMAIN read.ingredients |->
                           [id |-> read.ingredients[i].id,
                            amount |-> read.ingredients[i].amount]]
                         = request'.data.ingredients.value
                    /\ read.tags = SelectSeq2(TagOrdering,
                                        Range(request'.data.tags.value))
          /\ (request'.op = "retrieve" /\ request'.pk \in DOMAIN Recipe)
             => response'.body =
                    RecipeSerializer(request'.user, request'.pk, Recipe,
                        IngredientAmount, Favorite, ShoppingCart,
                        Subscription)]_vars

(***************************************************************************)
(* Properties of concurrent favorite / shopping-cart POSTs                 *)
(* (SpecConcurrent).                                                       *)
(***************************************************************************)
\* two workers answered a POST of the same pair and both found no row when
\* they looked it up
Raced(w1, w2) ==
    /\ w1 # w2
    /\ workers[w1].at = "done"
    /\ workers[w2].at = "done"
    /\ workers[w1].missed
    /\ workers[w2].missed
    /\ workers[w1].op = workers[w2].op
    /\ workers[w1].user = workers[w2].user
    /\ workers[w1].pk = workers[w2].pk

\* C20: however two concurrent favorite (or shopping_cart) POSTs of one
\* (user, recipe) pair interleave, the table ends with exactly one row of the
\* pair, one request is answered 201 and the other 400, and no POST is ever
\* answered with an unhandled IntegrityError (500).
C20_ConcurrentPostsOneRow ==
    /\ \A user \in User, pk \in RecipePks :
          /\ Copies(Favorite, [user |-> user, recipe |-> pk]) <= 1
          /\ Copies(ShoppingCart, [user |-> user, recipe |-> pk]) <= 1
    /\ \A w \in Worker :
          workers[w].at = "done"
          => workers[w].status \in {HTTP_201_CREATED, HTTP_400_BAD_REQUEST,
                                    HTTP_404_NOT_FOUND}
    /\ \A w1, w2 \in Worker :
          Raced(w1, w2)
          => /\ {workers[w1].status, workers[w2].status}
                  = {HTTP_201_CREATED, HTTP_400_BAD_REQUEST}
             /\ Copies(TableOf(workers[w1].op, Favorite, ShoppingCart),
                       [user |-> workers[w1].user, recipe |-> workers[w1].pk])
                  = 1

\* both workers looked up the same absent favorite, one inserted it and the
\* other met the unique constraint and was answered 400
C20_Witness ==
    /\ Raced(1, 2)
    /\ workers[1].op = "favorite"
    /\ workers[1].status = HTTP_201_CREATED
    /\ workers[2].status = HTTP_400_BAD_REQUEST
    /\ Copies(Favorite, [user |-> workers[1].user, recipe |-> workers[1].pk])
         = 1

(***************************************************************************)
(* Properties of concurrent subscribe POSTs (SpecSubscribing).             *)
(***************************************************************************)
SubscribeViews == {"subscribe", "users_views_subscribe"}

\* C21: however two concurrent subscribe POSTs of one (follower, author) pair
\* interleave, the table holds at most one row of the pair, and a POST that
\* loses the race is answered 400, never with an unhandled IntegrityError
\* (500).
C21_ConcurrentSubscribeOneRow ==
    /\ \A row \in BagToSet(Subscription) : Copies(Subscription, row) = 1
    /\ \A w \in Worker :
          (workers[w].at = "done" /\ workers[w].op \in SubscribeViews)
             => /\ workers[w].status # HTTP_500_INTERNAL_SERVER_ERROR
                /\ (workers[w].missed /\ workers[w].status # HTTP_201_CREATED)
                      => workers[w].status = HTTP_400_BAD_REQUEST

(***************************************************************************)
(* Properties of recipe creation with large amounts (SpecLarge).           *)
(***************************************************************************)
\* the insert of the IngredientAmount rows failed
InsertFailed(resp) ==
    resp.body \in {Errors("DataError"), Errors("IntegrityError")}

\* C22: a create whose insert of the IngredientAmount rows fails leaves no
\* Recipe row, no tag association and no IngredientAmount row of the request
\* in the store.
C22_CreateIsAtomic ==
    [][(request = NoRequest /\ request'.op = "create"
        /\ InsertFailed(response'))
          => /\ Recipe' = Recipe
             /\ IngredientAmount' = IngredientAmount]_vars

(***************************************************************************)
(* Properties of error responses (SpecErrors).                             *)
(***************************************************************************)
ClientErrors == {HTTP_400_BAD_REQUEST, HTTP_401_UNAUTHORIZED,
                 HTTP_403_FORBIDDEN, HTTP_404_NOT_FOUND}

CheckedOps == {"create", "update", "partial_update", "favorite",
               "shopping_cart", "subscribe"}

\* C23: a recipe write, favorite / shopping_cart toggle or subscribe request
\* that is answered with a validation, not-found or permission error (400,
\* 401, 403, 404) leaves every table of the store as it was before the
\* request.
C23_ErrorsChangeNothing ==
    [][(/\ request = NoRequest
        /\ request'.op \in CheckedOps
        /\ response'.status \in ClientErrors)
       => (/\ response'.body.kind = "errors"
           /\ StoreUnchanged
           /\ nextRecipeId' = nextRecipeId
           /\ nextAmountId' = nextAmountId)]_vars

\* the author's PATCH repeating an ingredient was refused while the recipe
\* has a row, a tag, a favorite and a cart entry and a subscription exists
C23_Witness ==
    /\ request.op = "partial_update"
    /\ request.pk \in DOMAIN Recipe
    /\ Recipe[request.pk].author = request.user
    /\ request.data.ingredients.present
    /\ HasRepeat(Ids(request.data.ingredients.value))
    /\ response.status = HTTP_400_BAD_REQUEST
    /\ Len(IngredientAmount) = 1
    /\ Recipe[request.pk].tags # {}
    /\ Favorite # EmptyBag
    /\ ShoppingCart # EmptyBag
    /\ Subscription # EmptyBag

(***************************************************************************)
(* Properties of the fixture import (SpecImport).                          *)
(***************************************************************************)
\* a run of load_ingredients has put every item of the file into the table
IngredientsLoaded ==
    \A i \in DOMAIN catalog.ingredients_json :
        \E j \in DOMAIN catalog.Ingredient :
            /\ catalog.Ingredient[j].name
                  = strip(catalog.ingredients_json[i].name)
            /\ catalog.Ingredient[j].measurement_unit
                  = strip(catalog.ingredients_json[i].measurement_unit)

\* a run of import_tags has gone over the file: every item is in the table or
\* was left out for a row holding its name or its slug
TagsLoaded ==
    \A i \in DOMAIN catalog.tags_json :
        \E j \in DOMAIN catalog.Tag :
            \/ catalog.Tag[j].name = catalog.tags_json[i].name
            \/ catalog.Tag[j].slug = catalog.tags_json[i].slug

\* C24: a run of the ingredient import, or of the tag import, on a file that
\* the command has loaded before leaves the table with the same rows: nothing
\* is added.
C24_ImportIsIdempotent ==
    [][/\ IngredientsLoaded => catalog'.Ingredient = catalog.Ingredient
       /\ TagsLoaded => catalog'.Tag = catalog.Tag]_vars

(***************************************************************************)
(* Properties of short links and of deletes (SpecDeletion).                *)
(***************************************************************************)
\* C25: get-link for a recipe id that does not exist answers 404; for an
\* existing recipe it answers with a body whose key "short-link" holds an
\* absolute URL naming that recipe; in both cases the store is unchanged.
C25_GetLink ==
    [][(request = NoRequest /\ request'.op = "get_link")
       => (/\ StoreUnchanged
           /\ IF request'.pk \in DOMAIN Recipe
              THEN /\ response'.status = HTTP_200_OK
                   /\ "short-link" \in DOMAIN response'.body
                   /\ response'.body["short-link"].host # ""
                   /\ response'.body["short-link"].path[2] = request'.pk
              ELSE response'.status = HTTP_404_NOT_FOUND)]_vars

\* after a delete, an anonymous client was refused the link of a recipe id
\* that no recipe has, while the other recipe is still there
C25_Witness ==
    /\ request.op = "get_link"
    /\ request.user = Anonymous
    /\ request.pk = MissingId
    /\ response.status = HTTP_404_NOT_FOUND
    /\ DOMAIN Recipe = {2}

(***************************************************************************)
(* Properties of the subscriptions listing (SpecSubscriptions).            *)
(***************************************************************************)
RecipesBy(author) == {r \in DOMAIN Recipe : Recipe[r].author = author}

Followed(user) ==
    {author \in User :
        BagIn([user |-> user, author |-> author], Subscription)}

\* the limits that are numbers, with their values
NumericLimits == {<<"0", 0>>, <<"1", 1>>, <<"2", 2>>}

\* the number of recipes the listing is to show for an author with total
\* recipes under the parameter sent
Shown(recipes_limit, total) ==
    IF recipes_limit.present
       /\ \E n \in NumericLimits : n[1] = recipes_limit.value
    THEN LET n == CHOOSE n \in NumericLimits : n[1] = recipes_limit.value
         IN  IF n[2] < total THEN n[2] ELSE total
    ELSE total

\* C26: the subscriptions listing of user u holds exactly the authors a with
\* a (u, a) Subscription row, each once; an author's recipes list holds
\* min(limit, total) of the author's recipes when a numeric recipes_limit is
\* sent and all of them otherwise; recipes_count is the author's total.
C26_SubscriptionsListing ==
    (request.op = "subscriptions" /\ request.user \in User)
       => /\ response.status = HTTP_200_OK
          /\ {response.body.results[i].id :
                 i \in DOMAIN response.body.results} = Followed(request.user)
          /\ Len(response.body.results) = Cardinality(Followed(request.user))
          /\ \A i \in DOMAIN response.body.results :
                LET item == response.body.results[i]
                    total == Cardinality(RecipesBy(item.id))
                IN  /\ item.recipes_count = total
                    /\ Len(item.recipes)
                          = Shown(request.recipes_limit, total)
                    /\ Cardinality(Range(item.recipes)) = Len(item.recipes)
                    /\ Range(item.recipes) \subseteq RecipesBy(item.id)

\* user 1 follows user 2, who has two recipes, and asked for one of them
C26_Witness ==
    /\ request.op = "subscriptions"
    /\ request.user = 1
    /\ request.recipes_limit = Given("1")
    /\ Followed(1) = {2}
    /\ Cardinality(RecipesBy(2)) = 2
    /\ Len(response.body.results) = 1
    /\ Len(response.body.results[1].recipes) = 1
    /\ response.body.results[1].recipes_count = 2

(***************************************************************************)
(* Frame of the relation toggles (SpecRelations).                          *)
(***************************************************************************)
\* C27: a favorite or shopping_cart POST / DELETE by user u on recipe r
\* changes at most the (u, r) row of that relation: every other row of it,
\* the other relation, the subscriptions and the recipes stay as they were,
\* and for every other user the read representation of every recipe (with
\* its is_favorited and is_in_shopping_cart flags) and the contents of the
\* shopping list stay the same.
C27_ToggleFrame ==
    [][(/\ request = NoRequest
        /\ request'.op \in {"favorite", "shopping_cart"})
       => LET op == request'.op
              target == [user |-> request'.user, recipe |-> request'.pk]
              before == RelationOf(op, Favorite, ShoppingCart)
              after == RelationOf(op, Favorite', ShoppingCart')
          IN  /\ \A row \in Rows(before, after) :
                    row # target
                       => CopiesIn(row, after) = CopiesIn(row, before)
              /\ RelationOf(op, ShoppingCart', Favorite')
                    = RelationOf(op, ShoppingCart, Favorite)
              /\ Subscription' = Subscription
              /\ Recipe' = Recipe
              /\ IngredientAmount' = IngredientAmount
              /\ \A v \in Requesters \ {request'.user} :
                    /\ \A pk \in DOMAIN Recipe :
                          RecipeSerializer(v, pk, Recipe', IngredientAmount',
                              Favorite', ShoppingCart', Subscription')
                            = RecipeSerializer(v, pk, Recipe, IngredientAmount,
                                  Favorite, ShoppingCart, Subscription)
                    /\ cart_amounts(v, IngredientAmount', ShoppingCart')
                          = cart_amounts(v, IngredientAmount, ShoppingCart)
                    /\ cart_recipes(v, Recipe', ShoppingCart')
                          = cart_recipes(v, Recipe, ShoppingCart)]_vars

\* user 1 took recipe 2 out of the cart while it stays a favorite of user 1
\* and a favorite and cart entry of user 2
C27_Witness ==
    /\ request.op = "shopping_cart"
    /\ request.method = "DELETE"
    /\ request.user = 1
    /\ request.pk = 2
    /\ response.status = HTTP_204_NO_CONTENT
    /\ BagIn([user |-> 1, recipe |-> 2], Favorite)
    /\ BagIn([user |-> 2, recipe |-> 2], Favorite)
    /\ BagIn([user |-> 2, recipe |-> 2], ShoppingCart)

\* the total_amount of the lines, added up
RECURSIVE LineTotal(_)
LineTotal(lines) ==
    IF lines = <<>> THEN 0
    ELSE Head(lines).total_amount + LineTotal(Tail(lines))

\* C28: whatever recipes are deleted, every Favorite and ShoppingCart row
\* (and every IngredientAmount row) names an existing recipe, and a
\* downloaded shopping list is made of the existing recipes of the user's
\* cart alone: its recipe lines are theirs, one per cart recipe, and its
\* amounts add up to the amounts of their rows.
C28_NoDanglingRelations ==
    /\ \A row \in BagToSet(Favorite) \cup BagToSet(ShoppingCart) :
          row.recipe \in DOMAIN Recipe
    /\ \A i \in DOMAIN IngredientAmount :
          IngredientAmount[i].recipe \in DOMAIN Recipe
    /\ (request.op = "download_shopping_cart"
        /\ response.status = HTTP_200_OK)
          => LET cart == CartOf(request.user)
                 lines == response.body.recipes
             IN  /\ Len(lines) = Cardinality(cart)
                 /\ response.body.recipes_total = Cardinality(cart)
                 /\ \A k \in DOMAIN lines :
                       \E pk \in cart :
                          /\ lines[k].name = Recipe[pk].name
                          /\ lines[k].author = Recipe[pk].author
                 /\ LineTotal(response.body.ingredients)
                       = TotalOf({i \in DOMAIN IngredientAmount :
                                    IngredientAmount[i].recipe \in cart})

\* recipe 1, which was in user 2's cart and favorites, has been deleted; the
\* list user 2 downloads holds recipe 2 and its sugar alone
C28_Witness ==
    /\ request.op = "download_shopping_cart"
    /\ request.user = 2
    /\ response.status = HTTP_200_OK
    /\ DOMAIN Recipe = {2}
    /\ Len(response.body.recipes) = 1
    /\ response.body.recipes[1].author = 2
    /\ Len(response.body.ingredients) = 1
    /\ response.body.ingredients[1].name = "Sugar"
    /\ response.body.ingredients[1].total_amount = 2
    /\ Favorite = EmptyBag

(***************************************************************************)
(* Properties of recipe authorship (SpecAuthors).                          *)
(***************************************************************************)
\* C29: no create or update request, whoever sends it and whatever author
\* its payload names, changes the author of an existing recipe, and a recipe
\* that appears was created by a registered requester and has that requester
\* as its author.
C29_AuthorNeverChanges ==
    [][/\ \A pk \in DOMAIN Recipe \cap DOMAIN Recipe' :
             Recipe'[pk].author = Recipe[pk].author
       /\ \A pk \in DOMAIN Recipe' \ DOMAIN Recipe :
             /\ request'.op = "create"
             /\ request'.user \in User
             /\ Recipe'[pk].author = request'.user
       /\ DOMAIN Recipe \subseteq DOMAIN Recipe']_vars

\* the author's PATCH naming the other user as author was carried out and
\* the recipe is still the requester's
C29_Witness ==
    /\ request.op = "partial_update"
    /\ request.pk \in DOMAIN Recipe
    /\ request.data.author.present
    /\ request.data.author.value # request.user
    /\ response.status = HTTP_200_OK
    /\ Recipe[request.pk].author = request.user

(***************************************************************************)
(* Properties of the unit forms (SpecUnits).                               *)
(***************************************************************************)
\* the grammatical number that goes with an amount
FormOf(amount) ==
    IF amount % 10 = 1 /\ amount % 100 # 11
    THEN "one"
    ELSE IF amount % 10 \in 2..4 /\ amount % 100 \notin 12..14
    THEN "few"
    ELSE "many"

\* C30: for a unit listed in UNIT_FORMS and an amount >= 1 the list shows the
\* unit's 'one' form when amount mod 10 = 1 and amount mod 100 # 11, its
\* 'few' form when amount mod 10 is in 2..4 and amount mod 100 is not in
\* 12..14, and its 'many' form otherwise (so for 11..14 and 111..114); where
\* the three forms differ, each is shown in those cases only.  A unit that
\* is not listed is shown unchanged.
C30_UnitForms ==
    (/\ request.op = "download_shopping_cart"
     /\ response.status = HTTP_200_OK
     /\ Len(response.body.ingredients) = 1)
       => LET row == IngredientAmount[1]
              unit == Ingredient[row.ingredient].measurement_unit
              shown == response.body.ingredients[1].unit
          IN  /\ response.body.ingredients[1].total_amount = row.amount
              /\ IF unit \in DOMAIN UNIT_FORMS
                 THEN /\ shown = UNIT_FORMS[unit][FormOf(row.amount)]
                      /\ (row.amount \in (11..14) \cup (111..114))
                            => shown = UNIT_FORMS[unit].many
                      /\ (UNIT_FORMS[unit].one # UNIT_FORMS[unit].few
                          /\ UNIT_FORMS[unit].few # UNIT_FORMS[unit].many
                          /\ UNIT_FORMS[unit].one # UNIT_FORMS[unit].many)
                            => /\ shown = UNIT_FORMS[unit].one
                                    <=> (row.amount % 10 = 1
                                         /\ row.amount % 100 # 11)
                               /\ shown = UNIT_FORMS[unit].few
                                    <=> (row.amount % 10 \in 2..4
                                         /\ row.amount % 100 \notin 12..14)
                 ELSE shown = unit

\* 112 glasses of flour are listed with the 'many' form
C30_Witness ==
    /\ request.op = "download_shopping_cart"
    /\ response.status = HTTP_200_OK
    /\ Len(response.body.ingredients) = 1
    /\ response.body.ingredients[1].total_amount = 112
    /\ response.body.ingredients[1].unit = "stakanov"

====
